---- MODULE Spec2Model ----
(***************************************************************************)
(* tddflow: a watched package directory (Dir), its snapshots and analyses, *)
(* the import extractor (TM), the dispatcher (run_test_module, run_tests)  *)
(* and the cycle driver (watcher), modelled from                           *)
(* src/src/tddflow/_internal/watcher.py, with the rendering of tui.py, the *)
(* signal handler of __main__.py and run_tests of src/_internal/watcher.py.*)
(*                                                                         *)
(* A file name is a sequence of tokens (<<"test_", "prefix", ".py">>), so  *)
(* that startswith/endswith are computed on it; a path is a sequence of    *)
(* names from the filesystem root; a dotted module string is a sequence of *)
(* segments, each a token sequence.                                        *)
(***************************************************************************)
EXTENDS Integers, Sequences, FiniteSets, TLC

VARIABLES
    fs,             \* the filesystem: path -> [kind, mtime] of the entries that exist
    clock,          \* the filesystem's clock (mtime of the next write)
    dir,            \* Dir.dir, the watched directory
    root_package,   \* Dir._root_package, cached by the constructor
    static_maps,    \* Dir.static_maps: [set, m], set = FALSE while the attribute is missing
    last_snapshot,  \* Dir._last_snapshot
    analysis,       \* the Analysis returned by the last completed call
    ncalls,         \* number of completed calls of test_modules_to_run
    hist,           \* history: what changed in the filesystem relative to the calls
    jobs,           \* the paths handed to run_tests, in the order of pool.map
    run,            \* the test modules run and the outcomes of their subprocesses
    rr,             \* the results of run_test_module collected so far
    out,            \* what run_tests has returned
    pc,             \* the position of the driver in watcher()
    dbg,            \* watcher's argument dbg
    first,          \* watcher's local first
    should_quite,   \* the quit queue: the number of tokens in it
    inp,            \* tui.inp, the queue of the keys read
    screen,         \* what the TUI has rendered in the running tick
    key,            \* the key the running tick has read from tui.inp
    suite,          \* the suite given to testing.run: its special methods, its tests
    report,         \* the Report of the run: tests, fails_count, test_count
    printed,        \* what report.print has written to config.out
    calls,          \* the methods of the suite called so far, with how each call ended
    at,             \* the position of testing.run in _run_suite
    body,           \* the test called last: how many statements it has, how far it got
    now,            \* the local now of the running call of test_modules_to_run
    pool,           \* the worker pool: the tasks of the running pool.map
    life,           \* history: the cycles of the driver, what they rendered and reported
    deps,           \* what the last call of dep_gen has returned or raised
    index           \* Snapshot._pp_to_tt of now, and what production_to_test returned

dirVars == <<fs, clock, dir, root_package, static_maps, last_snapshot,
             analysis, ncalls, hist>>
dispatchVars == <<jobs, run, rr, out>>
driverVars == <<pc, dbg, first, should_quite, inp, screen, key>>
runVars == <<suite, report, printed, calls, at, body>>
cycleVars == <<now, pool, life>>
vars == <<dirVars, dispatchVars, driverVars, runVars, cycleVars, deps, index>>

(***************************************************************************)
(* Bounds                                                                  *)
(***************************************************************************)
\* filesystem modifications in one behaviour
MaxClock == 2
\* completed calls of test_modules_to_run that are counted
MaxCalls == 2
\* calls of Dir.map in one behaviour
MaxMaps == 1
\* length of what a test run writes to stderr
MaxErrLen == 3
\* quit tokens put on the quit queue
MaxSignals == 1
\* keys waiting in tui.inp
MaxKeys == 1
\* arguments on the command line
MaxArgs == 2
\* test methods of a suite
MaxTests == 2
\* statements of a test method
MaxStmts == 2
\* cycles of the driver that are followed task by task
MaxCycles == 2

(***************************************************************************)
(* Names and paths                                                         *)
(***************************************************************************)
Py(stem) == stem \o <<".py">>
INIT_PY == <<"__init__", ".py">>
PYCACHE == <<"__pycache__">>

Name(p) == p[Len(p)]
Parent(p) == SubSeq(p, 1, Len(p) - 1)
Join(d, rel) == d \o rel
IsPrefix(a, b) == Len(a) <= Len(b) /\ SubSeq(b, 1, Len(a)) = a

\* str.startswith("test_"), str.endswith("_test.py"), str.endswith(".py")
StartsWithTest(n) == Len(n) >= 1 /\ n[1] = "test_"
EndsWithTestPy(n) == Len(n) >= 2 /\ n[Len(n) - 1] = "_test" /\ n[Len(n)] = ".py"
EndsWithPy(n) == Len(n) >= 1 /\ n[Len(n)] = ".py"

\* the tree of the golden package of the tests, reduced
P_src == << <<"src">> >>
P_pkg == Join(P_src, << <<"pkg">> >>)
P_w == Join(P_pkg, << <<"w">> >>)
P_tests == Join(P_w, << <<"tests">> >>)
P_flat == Join(P_w, << <<"flat">> >>)
P_data == Join(P_w, << <<"data">> >>)

F_testing == Join(P_pkg, << Py(<<"testing">>) >>)
F_context == Join(P_w, << Py(<<"context">>) >>)
F_pm1 == Join(P_w, << Py(<<"pm1">>) >>)
F_pm2 == Join(P_w, << Py(<<"pm2">>) >>)
F_suffix_test == Join(P_w, << Py(<<"suffix", "_test">>) >>)
F_test_prefix == Join(P_w, << Py(<<"test_", "prefix">>) >>)
F_test_dir == Join(P_tests, << Py(<<"test_", "dir">>) >>)
F_nest == Join(P_flat, << Py(<<"nest">>) >>)
F_deep == Join(P_flat, << Py(<<"deep">>) >>)
F_test_hidden == Join(P_data, << Py(<<"test_", "hidden">>) >>)

\* further entries, of the trees that are walked and analysed but not run: a
\* package with a test module that does not compile, aggregator modules that
\* re-export from deep.py and the test modules importing through them, a file
\* test_notes.txt, a package named __pycache__, and in the directory data,
\* which is no package, a directory named __init__.py and a package
P_failed == Join(P_w, << <<"failed">> >>)
P_cache == Join(P_w, << PYCACHE >>)
P_sub == Join(P_data, << <<"sub">> >>)
F_compile_test == Join(P_failed, << Py(<<"compile", "_test">>) >>)
F_star == Join(P_flat, << Py(<<"star">>) >>)
F_named == Join(P_flat, << Py(<<"named">>) >>)
F_star_test == Join(P_flat, << Py(<<"star", "_test">>) >>)
F_named_test == Join(P_flat, << Py(<<"named", "_test">>) >>)
F_test_notes == Join(P_w, << <<"test_", "notes", ".txt">> >>)
F_test_cached == Join(P_cache, << Py(<<"test_", "cached">>) >>)
F_test_sub == Join(P_sub, << Py(<<"test_", "sub">>) >>)
F_ping == Join(P_flat, << Py(<<"ping">>) >>)
F_pong == Join(P_flat, << Py(<<"pong">>) >>)
F_ping_test == Join(P_flat, << Py(<<"ping", "_test">>) >>)
F_hop == Join(P_flat, << Py(<<"hop">>) >>)
F_hop_test == Join(P_flat, << Py(<<"hop", "_test">>) >>)
F_broken == Join(P_flat, << Py(<<"broken">>) >>)
F_broken_test == Join(P_flat, << Py(<<"broken", "_test">>) >>)

\* top-level statements of a source; a module string is the sequence of its
\* dot separated segments, an imported name a module string as well
From(module, names) == [kind |-> "from", module |-> module, names |-> names]
Import(names) == [kind |-> "import", module |-> <<>>, names |-> names]
Text(stmts) == [ok |-> TRUE, stmts |-> stmts]
NoText == [ok |-> FALSE, stmts |-> <<>>]

S_pkg == <<"pkg">>
S_w == <<"w">>

Entries ==
    { [path |-> P_src, kind |-> "dir", src |-> NoText],
      [path |-> P_pkg, kind |-> "dir", src |-> NoText],
      [path |-> Join(P_pkg, <<INIT_PY>>), kind |-> "file", src |-> Text(<<>>)],
      [path |-> F_testing, kind |-> "file", src |-> Text(<<>>)],
      [path |-> P_w, kind |-> "dir", src |-> NoText],
      [path |-> Join(P_w, <<INIT_PY>>), kind |-> "file", src |-> Text(<<>>)],
      [path |-> F_context, kind |-> "file",
       src |-> Text(<< From(<<S_pkg>>, << <<<<"testing">>>> >>) >>)],
      [path |-> F_pm1, kind |-> "file", src |-> Text(<<>>)],
      [path |-> F_pm2, kind |-> "file", src |-> Text(<<>>)],
      [path |-> F_suffix_test, kind |-> "file",
       src |-> Text(<< From(<< <<"context">> >>, << <<<<"testing">>>> >>),
                       From(<< <<"pm1">> >>, << <<<<"pm1f">>>> >>),
                       Import(<< << <<"pm2">> >> >>) >>)],
      [path |-> F_test_prefix, kind |-> "file",
       src |-> Text(<< From(<< <<"context">> >>, << <<<<"testing">>>> >>),
                       From(<< <<"pm1">> >>, << <<<<"pm1f">>>> >>),
                       Import(<< << <<"suffix", "_test">> >> >>) >>)],
      [path |-> P_tests, kind |-> "dir", src |-> NoText],
      [path |-> Join(P_tests, <<INIT_PY>>), kind |-> "file", src |-> Text(<<>>)],
      [path |-> F_test_dir, kind |-> "file",
       src |-> Text(<< From(<<S_pkg, S_w>>, << <<<<"pm2">>>> >>),
                       From(<<S_pkg, S_w, <<"flat">>, <<"nest">> >>,
                            << <<<<"deep">>>> >>) >>)],
      [path |-> P_flat, kind |-> "dir", src |-> NoText],
      [path |-> Join(P_flat, <<INIT_PY>>), kind |-> "file", src |-> Text(<<>>)],
      [path |-> F_nest, kind |-> "file",
       src |-> Text(<< From(<<S_pkg, S_w, <<"flat">> >>, << <<<<"deep">>>> >>) >>)],
      [path |-> F_deep, kind |-> "file", src |-> Text(<<>>)],
      [path |-> P_data, kind |-> "dir", src |-> NoText],
      [path |-> F_test_hidden, kind |-> "file", src |-> Text(<<>>)],
      [path |-> P_failed, kind |-> "dir", src |-> NoText],
      [path |-> Join(P_failed, <<INIT_PY>>), kind |-> "file", src |-> Text(<<>>)],
      [path |-> F_compile_test, kind |-> "file", src |-> NoText],
      [path |-> F_star, kind |-> "file",
       src |-> Text(<< From(<<S_pkg, S_w, <<"flat">>, <<"deep">> >>,
                            << <<<<"*">>>> >>) >>)],
      [path |-> F_named, kind |-> "file",
       src |-> Text(<< From(<<S_pkg, S_w, <<"flat">>, <<"deep">> >>,
                            << <<<<"answer">>>> >>) >>)],
      [path |-> F_star_test, kind |-> "file",
       src |-> Text(<< From(<<S_pkg, S_w, <<"flat">>, <<"star">> >>,
                            << <<<<"deep">>>> >>) >>)],
      [path |-> F_named_test, kind |-> "file",
       src |-> Text(<< From(<<S_pkg, S_w, <<"flat">>, <<"named">> >>,
                            << <<<<"answer">>>> >>) >>)],
      [path |-> F_test_notes, kind |-> "file", src |-> NoText],
      [path |-> P_cache, kind |-> "dir", src |-> NoText],
      [path |-> Join(P_cache, <<INIT_PY>>), kind |-> "file", src |-> Text(<<>>)],
      [path |-> F_test_cached, kind |-> "file", src |-> Text(<<>>)],
      [path |-> Join(P_data, <<INIT_PY>>), kind |-> "dir", src |-> NoText],
      [path |-> P_sub, kind |-> "dir", src |-> NoText],
      [path |-> Join(P_sub, <<INIT_PY>>), kind |-> "file", src |-> Text(<<>>)],
      [path |-> F_test_sub, kind |-> "file", src |-> Text(<<>>)],
      [path |-> F_ping, kind |-> "file",
       src |-> Text(<< From(<<S_pkg, S_w, <<"flat">>, <<"pong">> >>,
                            << <<<<"deep">>>> >>) >>)],
      [path |-> F_pong, kind |-> "file",
       src |-> Text(<< From(<<S_pkg, S_w, <<"flat">>, <<"ping">> >>,
                            << <<<<"deep">>>> >>) >>)],
      [path |-> F_ping_test, kind |-> "file",
       src |-> Text(<< From(<<S_pkg, S_w, <<"flat">>, <<"ping">> >>,
                            << <<<<"deep">>>> >>) >>)],
      [path |-> F_hop, kind |-> "file",
       src |-> Text(<< From(<<S_pkg, S_w, <<"flat">>, <<"nest">> >>,
                            << <<<<"deep">>>> >>) >>)],
      [path |-> F_hop_test, kind |-> "file",
       src |-> Text(<< From(<<S_pkg, S_w, <<"flat">>, <<"hop">> >>,
                            << <<<<"deep">>>> >>) >>)],
      [path |-> F_broken, kind |-> "file", src |-> NoText],
      [path |-> F_broken_test, kind |-> "file",
       src |-> Text(<< From(<<S_pkg, S_w, <<"flat">>, <<"broken">> >>,
                            << <<<<"deep">>>> >>) >>)] }

\* the aggregators that re-export a name of one another, and their tests
Chained == {F_ping, F_pong, F_ping_test, F_hop, F_hop_test}
\* a production module saved half-edited, and the test that imports from it
Broken == {F_broken, F_broken_test}

\* the entries of the further trees
Further ==
    {P_failed, Join(P_failed, <<INIT_PY>>), F_compile_test, F_star, F_named,
     F_star_test, F_named_test, F_test_notes, P_cache, Join(P_cache, <<INIT_PY>>),
     F_test_cached, Join(P_data, <<INIT_PY>>), P_sub, Join(P_sub, <<INIT_PY>>),
     F_test_sub} \cup Chained \cup Broken

Universe == {e.path : e \in Entries}
\* kind and text of every path of the tree
KindOf == [p \in Universe |-> (CHOOSE e \in Entries : e.path = p).kind]
SrcOf == [p \in Universe |-> (CHOOSE e \in Entries : e.path = p).src]

\* files the environment touches, and files it deletes and creates again
Touched == {F_pm1, F_pm2, F_suffix_test, F_test_dir}
Volatile == {F_pm2, F_test_dir}

(***************************************************************************)
(* pathlib                                                                 *)
(***************************************************************************)
exists(f, p) == p \in DOMAIN f
is_dir(f, p) == p \in DOMAIN f /\ f[p].kind = "dir"
iterdir(f, d) == {p \in DOMAIN f : Len(p) = Len(d) + 1 /\ IsPrefix(d, p)}

(***************************************************************************)
(* Dir: path classifier and tree walker                                    *)
(***************************************************************************)
IGNORE_PACKAGES == {PYCACHE}
IGNORE_MODULES == {INIT_PY}

\* variant: an entry named __init__.py makes a package, whatever it is
is_package_by_name(f, d) == \E e \in iterdir(f, d) : Name(e) = INIT_PY

is_package(f, d) ==
    \E e \in iterdir(f, d) : ~is_dir(f, e) /\ Name(e) = INIT_PY

\* variant: the climb ends after one step
ClimbOnce(f, d) == IF Len(d) > 0 /\ is_package(f, Parent(d)) THEN Parent(d) ELSE d

\* the root_package property's loop: climb while the parent is a package
RECURSIVE ClimbToRoot(_, _)
ClimbToRoot(f, d) ==
    IF Len(d) > 0 /\ is_package(f, Parent(d)) THEN ClimbToRoot(f, Parent(d)) ELSE d

\* variant: the walk descends into every directory that is a package
RECURSIVE sub_packages_ignoring_none(_, _)
sub_packages_ignoring_none(f, d) ==
    {d} \cup UNION { sub_packages_ignoring_none(f, c) :
                       c \in { c \in iterdir(f, d) : is_dir(f, c) /\ is_package(f, c) } }

RECURSIVE sub_packages(_, _)
sub_packages(f, d) ==
    {d} \cup UNION { sub_packages(f, c) :
                       c \in { c \in iterdir(f, d) :
                                 /\ is_dir(f, c)
                                 /\ Name(c) \notin IGNORE_PACKAGES
                                 /\ is_package(f, c) } }

is_test_module(p) ==
    /\ (StartsWithTest(Name(p)) \/ EndsWithTestPy(Name(p)))
    /\ Name(p) \notin IGNORE_MODULES

is_production(f, p) ==
    /\ ~is_dir(f, p)
    /\ EndsWithPy(Name(p))
    /\ Name(p) \notin IGNORE_MODULES
    /\ ~is_test_module(p)

test_modules(f, d) ==
    { p \in UNION { iterdir(f, s) : s \in sub_packages(f, d) } :
        ~is_dir(f, p) /\ is_test_module(p) }

production_modules(f, d, root) ==
    { p \in UNION { iterdir(f, s) : s \in sub_packages(f, d) } : is_production(f, p) }
    \cup (IF root # d THEN { p \in iterdir(f, root) : is_production(f, p) } ELSE {})

(***************************************************************************)
(* TM: the import extractor                                                *)
(* (subs stands for the value of self.watched.sub_packages(), which every  *)
(* call of _is_package_import computes from the same tree)                 *)
(***************************************************************************)
None == [some |-> FALSE, p |-> <<>>]
Some(p) == [some |-> TRUE, p |-> p]

\* module_string.replace(".", os.sep) + ".py"
RelPy(ms) == [i \in 1..Len(ms) |-> IF i = Len(ms) THEN Py(ms[i]) ELSE ms[i]]

\* mod is the importing module (the test module when the caller passes none)
import_to_module(f, root, ms, mod) ==
    IF exists(f, Join(Parent(root), RelPy(ms))) THEN Some(Join(Parent(root), RelPy(ms)))
    ELSE IF exists(f, Join(Parent(mod), RelPy(ms))) THEN Some(Join(Parent(mod), RelPy(ms)))
    ELSE None

is_package_import(subs, root, pkg) ==
    \/ pkg[Len(pkg)] = Name(root)
    \/ Join(Parent(root), pkg) \in subs

\* results of _resolve_from_import: a raised exception, or (path | None, found)
Raised == [exc |-> TRUE, dep |-> None, found |-> FALSE]
Resolved(dep, found) == [exc |-> FALSE, dep |-> dep, found |-> found]

\* a recursion deeper than the number of sources with top-level imports
\* repeats a module and never ends: the interpreter ends it with RecursionError
RecursionFuel == Cardinality({p \in Universe : SrcOf[p].stmts # <<>>}) + 1

Names(node) == {node.names[k] : k \in 1..Len(node.names)}

RECURSIVE resolve_stmts(_, _, _, _, _, _, _, _)
\* _resolve_from_import(mod, imp); ast.parse(mod.read_text()) raises for a
\* directory and for a text that does not parse
resolve_from_import(f, subs, root, tm, mod, imp, fuel) ==
    IF ~mod.some THEN Resolved(None, FALSE)
    ELSE IF fuel = 0 \/ ~exists(f, mod.p) \/ ~SrcOf[mod.p].ok THEN Raised
    ELSE resolve_stmts(f, subs, root, tm, mod, imp, fuel, 1)

\* its loop over the top-level statements of mod, from statement i on
resolve_stmts(f, subs, root, tm, mod, imp, fuel, i) ==
    IF i > Len(SrcOf[mod.p].stmts) THEN Resolved(None, FALSE)
    ELSE IF SrcOf[mod.p].stmts[i].kind = "from" THEN
      IF import_to_module(f, root, SrcOf[mod.p].stmts[i].module, tm).some THEN
        IF imp \in Names(SrcOf[mod.p].stmts[i])
        THEN resolve_from_import(f, subs, root, tm,
                 import_to_module(f, root, SrcOf[mod.p].stmts[i].module, tm), imp, fuel - 1)
        ELSE resolve_stmts(f, subs, root, tm, mod, imp, fuel, i + 1)
      ELSE IF ~is_package_import(subs, root, SrcOf[mod.p].stmts[i].module)
        THEN resolve_stmts(f, subs, root, tm, mod, imp, fuel, i + 1)
      ELSE IF imp \in Names(SrcOf[mod.p].stmts[i]) THEN
        IF import_to_module(f, root, SrcOf[mod.p].stmts[i].module \o imp, tm).some
        THEN Resolved(import_to_module(f, root, SrcOf[mod.p].stmts[i].module \o imp, tm),
                      TRUE)
        ELSE Resolved(None, FALSE)
      ELSE resolve_stmts(f, subs, root, tm, mod, imp, fuel, i + 1)
    ELSE
      IF imp \in Names(SrcOf[mod.p].stmts[i]) /\ import_to_module(f, root, imp, mod.p).some
      THEN Resolved(import_to_module(f, root, imp, mod.p), TRUE)
      ELSE resolve_stmts(f, subs, root, tm, mod, imp, fuel, i + 1)

\* what production_dependencies yields for one imported name of a from-import
\* whose module resolved to dep: the re-exported module, or dep itself
yield_of(dep, r) == [exc |-> r.exc, dep |-> IF r.found THEN r.dep ELSE dep]

\* the yields of several names or statements together
Collect(yy) ==
    [exc |-> \E y \in yy : y.exc, deps |-> {y.dep.p : y \in {z \in yy : z.dep.some}}]
CollectAll(gens) ==
    [exc |-> \E r \in gens : r.exc, deps |-> UNION {r.deps : r \in gens}]

\* what one top-level statement of the test module tm yields
stmt_dependencies(f, subs, root, tm, node) ==
    IF node.kind = "from" THEN
      IF import_to_module(f, root, node.module, tm).some THEN
        Collect({ yield_of(import_to_module(f, root, node.module, tm),
                           resolve_from_import(f, subs, root, tm,
                               import_to_module(f, root, node.module, tm), n,
                               RecursionFuel)) : n \in Names(node) })
      ELSE IF ~is_package_import(subs, root, node.module) THEN [exc |-> FALSE, deps |-> {}]
      ELSE Collect({ [exc |-> FALSE, dep |-> import_to_module(f, root, node.module \o n, tm)] :
                     n \in Names(node) })
    ELSE Collect({ [exc |-> FALSE, dep |-> import_to_module(f, root, n, tm)] :
                   n \in Names(node) })

\* variant: no guard around the parse of the test module
production_dependencies_unguarded(f, subs, root, tm) ==
    IF ~exists(f, tm) \/ ~SrcOf[tm].ok THEN [exc |-> TRUE, deps |-> {}]
    ELSE CollectAll({ stmt_dependencies(f, subs, root, tm, SrcOf[tm].stmts[i]) :
                      i \in 1..Len(SrcOf[tm].stmts) })

\* [exc, deps]: exc when an exception leaves the generator; a test module that
\* cannot be read or parsed yields nothing
production_dependencies(f, subs, root, tm) ==
    IF ~exists(f, tm) \/ ~SrcOf[tm].ok THEN [exc |-> FALSE, deps |-> {}]
    ELSE CollectAll({ stmt_dependencies(f, subs, root, tm, SrcOf[tm].stmts[i]) :
                      i \in 1..Len(SrcOf[tm].stmts) })

\* TM.dependencies / parallel_dep_gen: the pairs (test module, dependency)
edges_of(tm, r) == [exc |-> r.exc, deps |-> {<<tm, p>> : p \in r.deps}]
dep_gen(f, d, root, tt) ==
    CollectAll({ edges_of(tm, production_dependencies(f, sub_packages(f, d), root, tm)) :
                 tm \in tt })

(***************************************************************************)
(* Dir.map and Dir.mappings                                                *)
(***************************************************************************)
\* the two sides of the argument 'P->T' are strings: a path relative to the
\* root package or an absolute path
RelStr(v) == [abs |-> FALSE, v |-> v]
AbsStr(v) == [abs |-> TRUE, v |-> v]
\* root_package.joinpath(s)
JoinStr(root, s) == IF s.abs THEN s.v ELSE Join(root, s.v)
\* Path(s) of a string that was taken verbatim: relative to the working directory
CWD == << <<".">> >>
PathOfStr(s) == IF s.abs THEN s.v ELSE Join(CWD, s.v)

\* a key of static_maps: a Path, or the string as it was given
PathKey(p) == [isPath |-> TRUE, v |-> p]
StrKey(s) == [isPath |-> FALSE, v |-> s.v]

NoMaps == [set |-> FALSE, m |-> <<>>]

\* variant: the key is always the string as given
map_key_verbatim(f, root, ps) == StrKey(ps)

map_key(f, root, ps) ==
    IF exists(f, JoinStr(root, ps)) THEN PathKey(JoinStr(root, ps)) ELSE StrKey(ps)

map_target(f, root, ts) ==
    IF exists(f, JoinStr(root, ts)) THEN JoinStr(root, ts) ELSE PathOfStr(ts)

\* Dir.map after the split at '->'
map(f, root, sm, ps, ts) ==
    LET p == map_key(f, root, ps)
        t == map_target(f, root, ts)
    IN IF ~sm.set THEN [set |-> TRUE, m |-> (p :> <<t>>)]
       ELSE IF p \in DOMAIN sm.m
            THEN [set |-> TRUE, m |-> [sm.m EXCEPT ![p] = Append(@, t)]]
            ELSE [set |-> TRUE, m |-> (p :> <<t>>) @@ sm.m]

\* Dir.mappings: the dict, or an empty dict while no mapping was registered
mappings(sm) == IF sm.set THEN sm.m ELSE <<>>

\* the arguments Dir.map is called with
MapProds == {RelStr(<<S_w, Py(<<"pm1">>)>>), RelStr(<<S_w, Py(<<"pm2">>)>>)}
MapTests == {RelStr(<<S_w, <<"tests">>, Py(<<"test_", "dir">>)>>), AbsStr(F_test_hidden)}

(***************************************************************************)
(* Snapshot and Analysis                                                   *)
(***************************************************************************)
Range(q) == {q[i] : i \in 1..Len(q)}

\* Snapshot.__init__; the caller has checked that every path can be stat-ed
Snapshot(f, tt, pp, sm) ==
    [tt |-> tt, pp |-> pp, mt |-> [p \in tt \cup pp |-> f[p].mtime], sm |-> sm]

EmptySnapshot(sm) == [tt |-> {}, pp |-> {}, mt |-> <<>>, sm |-> sm]

\* the first half of production_to_test's except branch: the inverted dependencies
import_index(edges) ==
    [p \in {e[2] : e \in edges} |-> {e[1] : e \in {x \in edges : x[2] = p}}]

\* the second half: the static mappings of production modules of the snapshot
merged_keys(snap) == {k \in DOMAIN snap.sm : k.isPath /\ k.v \in snap.pp}

\* variant: the index of the imports alone
pp_to_tt_imports_only(snap, edges) == import_index(edges)

pp_to_tt(snap, edges) ==
    [p \in {e[2] : e \in edges} \cup {k.v : k \in merged_keys(snap)} |->
          (IF p \in {e[2] : e \in edges} THEN import_index(edges)[p] ELSE {})
          \cup (IF PathKey(p) \in merged_keys(snap) THEN Range(snap.sm[PathKey(p)]) ELSE {})]

production_to_test(idx, prd) == IF prd \in DOMAIN idx THEN idx[prd] ELSE {}

\* variant: an equal mtime counts as a modification
is_modified_or_equal(f, self, p) == p \notin DOMAIN self.mt \/ f[p].mtime >= self.mt[p]

\* the conditions of the two loops of Snapshot.updated; the mtime is read from
\* the file, not from the other snapshot
is_modified(f, self, p) == p \notin DOMAIN self.mt \/ f[p].mtime > self.mt[p]
stat_raises(f, self, p) == p \in DOMAIN self.mt /\ ~exists(f, p)

\* the Analysis, given the modified production modules and the result of the
\* dependency generator, which is run for the first of them
analysis_of(f, self, other, mpp, gen) ==
    [exc |-> \/ \E p \in other.pp \cup other.tt : stat_raises(f, self, p)
             \/ (mpp # {} /\ gen.exc),
     mod_tt |-> {t \in other.tt : ~stat_raises(f, self, t) /\ is_modified(f, self, t)},
     mod_pp |-> [p \in mpp |-> production_to_test(pp_to_tt(other, gen.deps), p)]]

\* variant: modified test modules are looked up in the index as well
updated_sources_alike(f, d, root, self, other) ==
    analysis_of(f, self, other,
                {p \in other.pp \cup other.tt :
                    ~stat_raises(f, self, p) /\ is_modified(f, self, p)},
                dep_gen(f, d, root, other.tt))

\* Snapshot.updated: [exc, mod_tt, mod_pp]
updated(f, d, root, self, other) ==
    analysis_of(f, self, other,
                {p \in other.pp : ~stat_raises(f, self, p) /\ is_modified(f, self, p)},
                dep_gen(f, d, root, other.tt))

\* Analysis.tt: the test modules to run
ToRun(a) == a.mod_tt \cup UNION {a.mod_pp[p] : p \in DOMAIN a.mod_pp}

NoAnalysis == [mod_tt |-> {}, mod_pp |-> <<>>]

(***************************************************************************)
(* Text: a string is a sequence of characters                              *)
(***************************************************************************)
WHITESPACE == {" ", "\n"}
NL == <<"\n">>

RECURSIVE lstrip(_)
lstrip(s) == IF s # <<>> /\ Head(s) \in WHITESPACE THEN lstrip(Tail(s)) ELSE s

RECURSIVE rstrip(_)
rstrip(s) ==
    IF s # <<>> /\ s[Len(s)] \in WHITESPACE THEN rstrip(SubSeq(s, 1, Len(s) - 1)) ELSE s

\* str.strip()
strip(s) == rstrip(lstrip(s))

\* str.find(sep) + 1: the first position of sep in s, 0 if there is none
find(s, sep) ==
    IF \E i \in 1..(Len(s) - Len(sep) + 1) : SubSeq(s, i, i + Len(sep) - 1) = sep
    THEN CHOOSE i \in 1..(Len(s) - Len(sep) + 1) :
            /\ SubSeq(s, i, i + Len(sep) - 1) = sep
            /\ \A j \in 1..(i - 1) : SubSeq(s, j, j + Len(sep) - 1) # sep
    ELSE 0

\* str.split(sep)
RECURSIVE split(_, _)
split(s, sep) ==
    IF find(s, sep) = 0 THEN <<s>>
    ELSE <<SubSeq(s, 1, find(s, sep) - 1)>>
         \o split(SubSeq(s, find(s, sep) + Len(sep), Len(s)), sep)

\* sep.join(parts)
RECURSIVE join(_, _)
join(sep, parts) ==
    IF parts = <<>> THEN <<>>
    ELSE IF Len(parts) = 1 THEN parts[1]
    ELSE parts[1] \o sep \o join(sep, Tail(parts))

\* str(path): the names of an absolute path, each after a '/'; a relative path
\* has no leading './'
RECURSIVE AbsPathStr(_)
AbsPathStr(p) == IF p = <<>> THEN <<>> ELSE <<"/">> \o p[1] \o AbsPathStr(Tail(p))

PathStr(p) == IF IsPrefix(CWD, p) THEN Tail(AbsPathStr(Tail(p))) ELSE AbsPathStr(p)

\* str.removeprefix(prefix)
removeprefix(s, prefix) ==
    IF IsPrefix(prefix, s) THEN SubSeq(s, Len(prefix) + 1, Len(s)) ELSE s

(***************************************************************************)
(* The dispatcher: Dir.run_test_module and run_tests                       *)
(* An outcome is what subprocess.run ends with: [timeout, stderr, stdout], *)
(* with timeout = TRUE for TimeoutExpired (the output written so far is    *)
(* then not looked at).                                                    *)
(***************************************************************************)
INDENT == <<" ", " ", " ", " ">>
TIMEOUT_MSG == <<"test run's timeout expired">>

\* a result of run_test_module: the pair (ss, ee)
Result(ss, ee) == [ss |-> ss, ee |-> ee]

rel_tm(root, tm) == removeprefix(PathStr(tm), PathStr(root))

\* variant: the pieces are returned as split has cut them
reopen_unopened(pieces, i) == SubSeq(pieces, i, Len(pieces))

\* the loop over enumerate(result.stdout.split('\n{'))
RECURSIVE reopen(_, _)
reopen(pieces, i) ==
    IF i > Len(pieces) THEN <<>>
    ELSE <<IF i = 1 THEN pieces[i] ELSE <<"{">> \o pieces[i]>> \o reopen(pieces, i + 1)

\* variant: stdout is looked at before stderr
run_test_module_stdout_first(root, tm, o) ==
    IF o.timeout
    THEN Result(<<>>, rel_tm(root, tm) :> (INDENT \o TIMEOUT_MSG))
    ELSE IF o.stdout # <<>>
    THEN Result(reopen(split(o.stdout, <<"\n", "{">>), 1), <<>>)
    ELSE IF o.stderr # <<>>
    THEN Result(<<>>, rel_tm(root, tm) :>
                    (INDENT \o join(NL \o INDENT, split(strip(o.stderr), NL))))
    ELSE Result(<<>>, <<>>)

\* variant: a run that wrote nothing at all is an error of the module
run_test_module_silence_fails(root, tm, o) ==
    IF o.timeout
    THEN Result(<<>>, rel_tm(root, tm) :> (INDENT \o TIMEOUT_MSG))
    ELSE IF o.stderr # <<>>
    THEN Result(<<>>, rel_tm(root, tm) :>
                    (INDENT \o join(NL \o INDENT, split(strip(o.stderr), NL))))
    ELSE IF o.stdout = <<>>
    THEN Result(<<>>, rel_tm(root, tm) :> INDENT)
    ELSE Result(reopen(split(o.stdout, <<"\n", "{">>), 1), <<>>)

run_test_module(root, tm, o) ==
    IF o.timeout
    THEN Result(<<>>, rel_tm(root, tm) :> (INDENT \o TIMEOUT_MSG))
    ELSE IF o.stderr # <<>>
    THEN Result(<<>>, rel_tm(root, tm) :>
                    (INDENT \o join(NL \o INDENT, split(strip(o.stderr), NL))))
    ELSE IF o.stdout = <<>>
    THEN Result(<<>>, <<>>)
    ELSE Result(reopen(split(o.stdout, <<"\n", "{">>), 1), <<>>)

\* dict.update
update(ee, other) ==
    [k \in DOMAIN ee \cup DOMAIN other |-> IF k \in DOMAIN other THEN other[k] ELSE ee[k]]

\* run_tests, the loop over the results of pool.map from the i-th on
RECURSIVE run_tests_loop(_, _, _)
run_tests_loop(results, i, acc) ==
    IF i > Len(results) THEN acc
    ELSE run_tests_loop(results, i + 1,
            Result(IF Len(results[i].ss) > 0 THEN acc.ss \o results[i].ss ELSE acc.ss,
                   IF Cardinality(DOMAIN results[i].ee) > 0
                   THEN update(acc.ee, results[i].ee) ELSE acc.ee))

\* variant: the loop ends at the first result that has an error
run_tests_until_error(results) ==
    run_tests_loop(
        SubSeq(results, 1,
               IF \E i \in 1..Len(results) : DOMAIN results[i].ee # {}
               THEN (CHOOSE i \in 1..Len(results) :
                        /\ DOMAIN results[i].ee # {}
                        /\ \A j \in 1..(i - 1) : DOMAIN results[j].ee = {}) - 1
               ELSE Len(results)),
        1, Result(<<>>, <<>>))

run_tests(results) == run_tests_loop(results, 1, Result(<<>>, <<>>))

\* run_tests of src/_internal/watcher.py: ee.update(ee)
RECURSIVE run_tests_earlier_loop(_, _, _)
run_tests_earlier_loop(results, i, acc) ==
    IF i > Len(results) THEN acc
    ELSE run_tests_earlier_loop(results, i + 1,
            Result(IF Len(results[i].ss) > 0 THEN acc.ss \o results[i].ss ELSE acc.ss,
                   IF Cardinality(DOMAIN results[i].ee) > 0
                   THEN update(acc.ee, acc.ee) ELSE acc.ee))

run_tests_earlier(results) == run_tests_earlier_loop(results, 1, Result(<<>>, <<>>))

(***************************************************************************)
(* History of the filesystem relative to the calls of test_modules_to_run  *)
(*   idle: the events since the last call returned                         *)
(*   gap: the events between the last two calls                            *)
(*   fresh: the last step was the return of a call                         *)
(*   regs: the static mappings registered, regsAtCall: when the call began *)
(*   nmaps: the number of calls of Dir.map                                 *)
(*   argv: the command line the program was started with                   *)
(***************************************************************************)
Ev(op, p) == [op |-> op, path |-> p]

NoHist == [gap |-> {}, idle |-> {}, fresh |-> FALSE, regs |-> {}, regsAtCall |-> {},
           nmaps |-> 0, argv |-> <<>>]

HistFs(h, e) == [h EXCEPT !.idle = @ \cup {e}, !.fresh = FALSE]

HistCall(h) ==
    [h EXCEPT !.gap = h.idle, !.idle = {}, !.fresh = TRUE, !.regsAtCall = h.regs]

(***************************************************************************)
(* The state after Dir(dir)                                                *)
(***************************************************************************)
InitFs == [p \in Universe \ Further |-> [kind |-> KindOf[p], mtime |-> 0]]

InitDirOn(f) ==
    /\ fs = f
    /\ clock = 0
    /\ dir = P_w
    /\ is_package(fs, dir)
    /\ root_package = ClimbToRoot(fs, dir)
    /\ static_maps = NoMaps
    /\ last_snapshot = EmptySnapshot(mappings(static_maps))
    /\ analysis = NoAnalysis
    /\ ncalls = 0
    /\ hist = NoHist

InitDir == InitDirOn(InitFs)

\* no run_tests is under way, no watcher is started
NoOut == [returned |-> FALSE, ss |-> <<>>, ee |-> <<>>]
Returned(r) == [returned |-> TRUE, ss |-> r.ss, ee |-> r.ee]

DispatcherOff == jobs = <<>> /\ run = <<>> /\ rr = <<>> /\ out = NoOut

DriverOff ==
    /\ pc = "off" /\ dbg = FALSE /\ first = TRUE
    /\ should_quite = 0
    /\ inp = <<>> /\ screen = <<>> /\ key = ""

\* testing.run is not called
NoSuite == [init |-> FALSE, setup |-> FALSE, tear_down |-> FALSE, finalize |-> FALSE,
            tt |-> <<>>]
NoReport == [failed |-> {}, logged |-> {}, fails_count |-> 0, test_count |-> 0]
NoBody == [name |-> "", len |-> 0, executed |-> 0, last |-> "none", how |-> "none"]
Off == [in |-> "off", i |-> 0]

RunnerOff ==
    /\ suite = NoSuite /\ report = NoReport /\ printed = <<>>
    /\ calls = <<>> /\ at = Off /\ body = NoBody

\* no call of test_modules_to_run is under way, the pool has no task, the
\* driver has completed no cycle
NoSnapshot == [none |-> TRUE]
Idle == [inflight |-> {}, done |-> <<>>, launched |-> <<>>]
NoLife == [cycles |-> 0, swaps |-> 0, forced |-> FALSE, baselines |-> 0,
           dispatched |-> FALSE, late |-> FALSE, owed |-> <<>>,
           seen |-> <<>>, raced |-> {}, ran |-> {}, again |-> {}, gone |-> {}]

CycleOff == now = NoSnapshot /\ pool = Idle /\ life = NoLife
NoDeps == [called |-> FALSE, tm |-> <<>>, exc |-> FALSE, deps |-> {}]
ExtractorOff == deps = NoDeps
NoIndex == [attr |-> FALSE, m |-> <<>>, shared |-> FALSE, gens |-> 0, ret |-> <<>>]
IndexOff == index = NoIndex

(***************************************************************************)
(* The environment: edits of the watched tree                              *)
(***************************************************************************)
dirFrame == <<dir, root_package, static_maps, last_snapshot, analysis, ncalls>>

\* os.utime / a write: the file gets a newer mtime
utime(p) ==
    /\ clock < MaxClock
    /\ exists(fs, p)
    /\ clock' = clock + 1
    /\ fs' = [fs EXCEPT ![p].mtime = clock + 1]
    /\ UNCHANGED dirFrame

Touch(p) ==
    /\ ncalls < MaxCalls
    /\ utime(p)
    /\ hist' = HistFs(hist, Ev("touch", p))
    /\ UNCHANGED <<dispatchVars, driverVars>>
    /\ UNCHANGED runVars
    /\ UNCHANGED cycleVars
    /\ UNCHANGED deps
    /\ UNCHANGED index

Delete(p) ==
    /\ clock < MaxClock
    /\ ncalls < MaxCalls
    /\ exists(fs, p)
    /\ clock' = clock + 1
    /\ fs' = [q \in DOMAIN fs \ {p} |-> fs[q]]
    /\ hist' = HistFs(hist, Ev("delete", p))
    /\ UNCHANGED dirFrame
    /\ UNCHANGED <<dispatchVars, driverVars>>
    /\ UNCHANGED runVars
    /\ UNCHANGED cycleVars
    /\ UNCHANGED deps
    /\ UNCHANGED index

Create(p) ==
    /\ clock < MaxClock
    /\ ncalls < MaxCalls
    /\ ~exists(fs, p)
    /\ clock' = clock + 1
    /\ fs' = (p :> [kind |-> KindOf[p], mtime |-> clock + 1]) @@ fs
    /\ hist' = HistFs(hist, Ev("create", p))
    /\ UNCHANGED dirFrame
    /\ UNCHANGED <<dispatchVars, driverVars>>
    /\ UNCHANGED runVars
    /\ UNCHANGED cycleVars
    /\ UNCHANGED deps
    /\ UNCHANGED index

(***************************************************************************)
(* Dir.map                                                                 *)
(***************************************************************************)
Map(ps, ts) ==
    /\ hist.nmaps < MaxMaps
    /\ ncalls < MaxCalls
    /\ static_maps' = map(fs, root_package, static_maps, ps, ts)
    /\ hist' = [hist EXCEPT !.fresh = FALSE, !.nmaps = @ + 1,
                  !.regs = @ \cup {[p |-> JoinStr(root_package, ps),
                                    t |-> map_target(fs, root_package, ts),
                                    prod |-> JoinStr(root_package, ps)
                                             \in production_modules(fs, dir, root_package)]}]
    /\ UNCHANGED <<fs, clock, dir, root_package, last_snapshot, analysis, ncalls>>
    /\ UNCHANGED <<dispatchVars, driverVars>>
    /\ UNCHANGED runVars
    /\ UNCHANGED cycleVars
    /\ UNCHANGED deps
    /\ UNCHANGED index

(***************************************************************************)
(* Dir.test_modules_to_run                                                 *)
(***************************************************************************)
\* now = Snapshot(frozenset(test_modules()), frozenset(production_modules()), ...)
snapshot_now(f, d, root, sm) ==
    Snapshot(f, test_modules(f, d), production_modules(f, d, root), mappings(sm))

\* tt = self._last_snapshot.updated(now); self._last_snapshot = now; return tt
\* (an exception of updated leaves the call before the assignment)
Return(snap, a) ==
    IF a.exc
    THEN /\ hist' = [hist EXCEPT !.fresh = FALSE]
         /\ UNCHANGED <<last_snapshot, analysis, ncalls>>
    ELSE /\ analysis' = [mod_tt |-> a.mod_tt, mod_pp |-> a.mod_pp]
         /\ last_snapshot' = snap
         /\ ncalls' = ncalls + 1
         /\ hist' = HistCall(hist)

TestModulesToRun ==
    /\ ncalls < MaxCalls
    /\ Return(snapshot_now(fs, dir, root_package, static_maps),
              updated(fs, dir, root_package, last_snapshot,
                      snapshot_now(fs, dir, root_package, static_maps)))
    /\ UNCHANGED <<fs, clock, dir, root_package, static_maps>>
    /\ UNCHANGED <<dispatchVars, driverVars>>
    /\ UNCHANGED runVars
    /\ UNCHANGED cycleVars
    /\ UNCHANGED deps
    /\ UNCHANGED index

Next ==
    \/ \E p \in Touched : Touch(p)
    \/ \E p \in Volatile : Delete(p)
    \/ \E p \in Volatile : Create(p)
    \/ \E ps \in MapProds, ts \in MapTests : Map(ps, ts)
    \/ TestModulesToRun

Init == InitDir /\ DispatcherOff /\ DriverOff /\ RunnerOff /\ CycleOff /\ ExtractorOff
           /\ IndexOff

Spec == Init /\ [][Next]_vars

(***************************************************************************)
(* Properties of Dir.test_modules_to_run                                   *)
(* They are stated where a call has just returned (hist.fresh): the tree   *)
(* is then the tree the call has read.                                     *)
(***************************************************************************)
\* the test sources whose dependencies, as the import extractor yields them,
\* contain the production source p
Importers(p) ==
    { t \in test_modules(fs, dir) :
        p \in production_dependencies(fs, sub_packages(fs, dir), root_package, t).deps }

\* the targets registered for p, by calls of Dir.map that found p in the tree,
\* before the last call of test_modules_to_run began
MappedTo(p) == { r.t : r \in { x \in hist.regsAtCall : x.p = p /\ x.prod } }

\* C1: the first call of test_modules_to_run after construction returns an
\* Analysis whose to-run set is the set of the paths test_modules() yields.
C1_FirstCallRunsAllTests ==
    (hist.fresh /\ ncalls = 1) => ToRun(analysis) = test_modules(fs, dir)

\* C2: a call that follows a call, with no file created, deleted or touched
\* in between, returns an Analysis with empty mod_tt and empty mod_pp.
C2_NoChangeNoRun ==
    (hist.fresh /\ ncalls >= 2 /\ hist.gap = {})
        => (analysis.mod_tt = {} /\ DOMAIN analysis.mod_pp = {})

C2_Witness ==
    /\ hist.fresh /\ ncalls >= 2 /\ hist.gap = {}
    /\ test_modules(fs, dir) # {}
    /\ hist.regsAtCall # {}
    /\ clock > 0

\* C3: when exactly one test source got a newer mtime between two calls and
\* nothing else changed, the second call's to-run set is that test source
\* alone, also when another test source imports it.
C3_TouchedTestRunsAlone ==
    (hist.fresh /\ ncalls >= 2) =>
        \A e \in hist.gap :
            (hist.gap = {e} /\ e.op = "touch" /\ e.path \in test_modules(fs, dir))
                => (ToRun(analysis) = {e.path} /\ DOMAIN analysis.mod_pp = {})

C3_Witness ==
    /\ hist.fresh /\ ncalls >= 2 /\ hist.gap = {Ev("touch", F_suffix_test)}
    /\ F_suffix_test \in
         production_dependencies(fs, sub_packages(fs, dir), root_package, F_test_prefix).deps
    /\ ToRun(analysis) = {F_suffix_test}

C5_StaticMappingAdds ==
    hist.fresh =>
        /\ \A r \in hist.regsAtCall :
              (r.prod /\ r.p \in DOMAIN analysis.mod_pp) => r.t \in ToRun(analysis)
        /\ \A ps \in MapProds, ts \in MapTests :
              LET P == JoinStr(root_package, ps)
                  T == JoinStr(root_package, ts)
              IN (/\ P \in DOMAIN analysis.mod_pp
                  /\ \A r \in hist.regsAtCall : ~(r.p = P /\ r.t = T)
                  /\ T \in analysis.mod_pp[P])
                 => T \in Importers(P)

C5_Witness ==
    /\ hist.fresh /\ ncalls >= 2
    /\ \E r \in hist.regsAtCall :
          /\ r.prod
          /\ hist.gap = {Ev("touch", r.p)}
          /\ r.t \notin Importers(r.p)
          /\ r.t \notin analysis.mod_tt
          /\ r.t \in ToRun(analysis)

(***************************************************************************)
(* The dispatcher on its own: run_tests over a list of paths               *)
(***************************************************************************)
\* all strings over chars of a length up to n
Strings(chars, n) == UNION {[1..k -> chars] : k \in 0..n}

\* what a test run writes to stderr, and to stdout: nothing, one suite
\* report, two of them, a JSON value that is no report; reports as TDD.print
\* writes them (over several lines, a newline after each); two reports with
\* nothing between them; an object with a line that begins with a nested
\* object
ErrChars == {"e", "\n"}
Stderrs == Strings(ErrChars, MaxErrLen)
JSON_RECORD == <<"{", "k", "}">>
TDD_RECORD == <<"{", "\n", "k", "{", "k", "}", "\n", "}", "\n">>
Stdouts ==
    {<<>>, JSON_RECORD, JSON_RECORD \o NL \o JSON_RECORD, <<"1">>,
     TDD_RECORD, TDD_RECORD \o TDD_RECORD,
     JSON_RECORD \o JSON_RECORD,
     <<"{", "k", "\n", "{", "k", "}", "}">>}

Outcomes == [timeout : BOOLEAN, stderr : Stderrs, stdout : Stdouts]

\* the paths run: two test modules of the tree and the target of a static
\* mapping that Dir.map has kept as given
JobPaths ==
    {F_suffix_test, F_test_dir,
     PathOfStr(RelStr(<<S_w, <<"tests">>, Py(<<"test_", "dir">>)>>))}
JobLists ==
    {<<a>> : a \in JobPaths}
        \cup {q \in {<<a, b>> : a \in JobPaths, b \in JobPaths} : q[1] # q[2]}

InitDispatch ==
    /\ InitDir
    /\ jobs \in JobLists
    /\ run = <<>> /\ rr = <<>> /\ out = NoOut
    /\ DriverOff
    /\ RunnerOff
    /\ CycleOff
    /\ ExtractorOff
    /\ IndexOff

\* pool.map(dir.run_test_module, tt): the next module's subprocess ends with
\* the outcome o
RunTestModule(o) ==
    /\ ~out.returned
    /\ Len(rr) < Len(jobs)
    /\ run' = <<[tm |-> jobs[Len(rr) + 1], o |-> o]>>
    /\ rr' = Append(rr, run_test_module(root_package, jobs[Len(rr) + 1], o))
    /\ UNCHANGED <<jobs, out>>
    /\ UNCHANGED <<dirVars, driverVars>>
    /\ UNCHANGED runVars
    /\ UNCHANGED cycleVars
    /\ UNCHANGED deps
    /\ UNCHANGED index

RunTests ==
    /\ ~out.returned
    /\ Len(rr) = Len(jobs)
    /\ out' = Returned(run_tests(rr))
    /\ run' = <<>>
    /\ UNCHANGED <<jobs, rr>>
    /\ UNCHANGED <<dirVars, driverVars>>
    /\ UNCHANGED runVars
    /\ UNCHANGED cycleVars
    /\ UNCHANGED deps
    /\ UNCHANGED index

RunTestsEarlier ==
    /\ ~out.returned
    /\ Len(rr) = Len(jobs)
    /\ out' = Returned(run_tests_earlier(rr))
    /\ run' = <<>>
    /\ UNCHANGED <<jobs, rr>>
    /\ UNCHANGED <<dirVars, driverVars>>
    /\ UNCHANGED runVars
    /\ UNCHANGED cycleVars
    /\ UNCHANGED deps
    /\ UNCHANGED index

NextDispatch ==
    \/ \E o \in Outcomes : RunTestModule(o)
    \/ RunTests
    \/ RunTestsEarlier

SpecDispatch == InitDispatch /\ [][NextDispatch]_vars

\* the lines, each after an indent of four spaces
IndentedLines(lines) == join(NL, [i \in 1..Len(lines) |-> INDENT \o lines[i]])

\* the path of tm below the root package, as a string
BelowRoot(tm) ==
    IF IsPrefix(root_package, tm)
    THEN AbsPathStr(SubSeq(tm, Len(root_package) + 1, Len(tm)))
    ELSE PathStr(tm)

\* C6: run_test_module never returns records together with an error; on a
\* timeout or on anything written to stderr the records are empty and the
\* error map has one entry, keyed by the path without the root package, with
\* the indented timeout message or the indented lines of stderr; timeout goes
\* before stderr, stderr before stdout.
C6_ErrorOrRecords ==
    run # <<>> =>
        /\ ~(Len(rr[Len(rr)].ss) > 0 /\ DOMAIN rr[Len(rr)].ee # {})
        /\ (run[1].o.timeout \/ run[1].o.stderr # <<>>) =>
              /\ rr[Len(rr)].ss = <<>>
              /\ DOMAIN rr[Len(rr)].ee = {BelowRoot(run[1].tm)}
              /\ rr[Len(rr)].ee[BelowRoot(run[1].tm)] =
                    IF run[1].o.timeout
                    THEN INDENT \o TIMEOUT_MSG
                    ELSE IndentedLines(split(strip(run[1].o.stderr), NL))
        /\ (~run[1].o.timeout /\ run[1].o.stderr = <<>>) => DOMAIN rr[Len(rr)].ee = {}

C6_Witness ==
    /\ run # <<>>
    /\ ~run[1].o.timeout
    /\ run[1].o.stderr = <<"e", "\n", "e">>
    /\ run[1].o.stdout = JSON_RECORD
    /\ run[1].tm = F_test_dir
    /\ rr[Len(rr)] =
          Result(<<>>, <<"/", "w", "/", "tests", "/", "test_", "dir", ".py">>
                          :> <<" ", " ", " ", " ", "e", "\n", " ", " ", " ", " ", "e">>)

\* the record lists of the results, one after the other
RECURSIVE Concat(_)
Concat(results) ==
    IF results = <<>> THEN <<>> ELSE Head(results).ss \o Concat(Tail(results))

\* C7: run_tests returns the concatenation of the record lists of all modules
\* and an error map with the entry of every module that returned an error;
\* so for run_tests of src/src/tddflow/_internal/watcher.py and for the one of
\* src/_internal/watcher.py.
C7_RunTestsKeepsAll ==
    out.returned =>
        /\ out.ss = Concat(rr)
        /\ \A i \in 1..Len(rr) : \A k \in DOMAIN rr[i].ee :
              k \in DOMAIN out.ee /\ out.ee[k] = rr[i].ee[k]
        /\ DOMAIN out.ee \subseteq UNION {DOMAIN rr[i].ee : i \in 1..Len(rr)}

(***************************************************************************)
(* The TUI: what print_summary makes of the records                        *)
(***************************************************************************)
\* json.loads and the subscripts that follow it: a suite report, a JSON value
\* that is no report (the subscript raises), or no JSON (JSONDecodeError)
\* (a text of JSON is made of '{', '}', whitespace, 'k' for the members of a
\* report and '1' for a number)
\* the number of objects open after the first i characters
Depth(s, i) ==
    Cardinality({j \in 1..i : s[j] = "{"}) - Cardinality({j \in 1..i : s[j] = "}"})

\* the text is made of objects and of whitespace between them
is_json_objects(s) ==
    /\ \A i \in 1..Len(s) : Depth(s, i) >= 0
    /\ Depth(s, Len(s)) = 0
    /\ \A i \in 1..Len(s) : s[i] \in WHITESPACE \/ Depth(s, i) >= 1 \/ s[i] = "}"
    /\ \A i \in 1..Len(s) : s[i] = "1" => Depth(s, i) >= 1

\* the objects of such a text: the positions of their closing braces
objects_of(s) == {i \in 1..Len(s) : s[i] = "}" /\ Depth(s, i) = 0}

\* json.loads(s) returns a dict
is_json_object(s) == is_json_objects(s) /\ Cardinality(objects_of(s)) = 1

loads(s) ==
    IF is_json_object(s)
    THEN IF \E i \in 1..Len(s) : s[i] = "k" /\ Depth(s, i) = 1 THEN "report" ELSE "value"
    ELSE IF strip(s) = <<"1">> THEN "value"
    ELSE "JSONDecodeError"

print_summary_raises(ss) == \E i \in 1..Len(ss) : loads(ss[i]) = "value"

\* the parsed objects print_summary returns
parsed(ss) ==
    [i \in 1..Len(ss) |-> IF loads(ss[i]) = "report" THEN "suite" ELSE "internal error"]

\* what is written: [what, v]
Item(what, v) == [what |-> what, v |-> v]

print_summary(ss, failed) ==
    Item("summary", [ss |-> ss,
                     red |-> failed \/ \E i \in 1..Len(ss) : loads(ss[i]) = "JSONDecodeError"])

BUTTONS == Item("buttons", <<>>)

(***************************************************************************)
(* The driver: watcher, run_modules, dbg_run                               *)
(*   pc: top (should_quite.get), inp (tui.inp.get), mode (if dbg),         *)
(*       run_modules, run_tests, sleep, dbg_run, dbg_run_tests, prompt     *)
(*       (input), stopped, crashed (an exception has left watcher)         *)
(* jobs, rr, out, screen and key are those of the running tick.            *)
(***************************************************************************)
O_timeout == [timeout |-> TRUE, stderr |-> <<>>, stdout |-> <<>>]
O_stderr == [timeout |-> FALSE, stderr |-> <<"e">>, stdout |-> <<>>]
O_silent == [timeout |-> FALSE, stderr |-> <<>>, stdout |-> <<>>]
O_report == [timeout |-> FALSE, stderr |-> <<>>, stdout |-> JSON_RECORD]
O_value == [timeout |-> FALSE, stderr |-> <<>>, stdout |-> <<"1">>]
DriverOutcomes == {O_timeout, O_stderr, O_silent, O_report, O_value}

Keys == {"q", "r", "a", "x"}

\* the orders in which a set is iterated
Orders(S) ==
    {q \in [1..Cardinality(S) -> S] : \A i, j \in 1..Cardinality(S) : i # j => q[i] # q[j]}

\* variant: the test modules named test_*.py only
all_test_paths_prefixed(f, d) == {t \in test_modules(f, d) : StartsWithTest(Name(t))}

\* [tm.path for tm in dir.test_modules()]
all_test_paths(f, d) == test_modules(f, d)

\* the files edited while the watcher runs
Edited == {F_suffix_test}

\* the watched tree: two test modules, suffix_test.py and tests/test_dir.py
WatcherFs == [p \in DOMAIN InitFs \ {F_test_prefix} |-> InitFs[p]]

InitWatcher ==
    /\ InitDirOn(WatcherFs)
    /\ DispatcherOff
    /\ pc = "top" /\ dbg \in BOOLEAN /\ first = TRUE
    /\ should_quite = 0
    /\ inp = <<>> /\ screen = <<>> /\ key = ""
    /\ RunnerOff
    /\ CycleOff
    /\ ExtractorOff
    /\ IndexOff

running == pc \notin {"off", "main", "exit0", "exit1", "stopped", "crashed"}

\* the environment of the driver
Edit(p) ==
    /\ running
    /\ utime(p)
    /\ UNCHANGED hist
    /\ UNCHANGED <<dispatchVars, driverVars>>
    /\ UNCHANGED runVars
    /\ UNCHANGED cycleVars
    /\ UNCHANGED deps
    /\ UNCHANGED index

\* SIGINT: the handler puts a token on the queue
Sigint ==
    /\ running
    /\ should_quite < MaxSignals
    /\ should_quite' = should_quite + 1
    /\ UNCHANGED <<pc, dbg, first, inp, screen, key>>
    /\ UNCHANGED <<dirVars, dispatchVars>>
    /\ UNCHANGED runVars
    /\ UNCHANGED cycleVars
    /\ UNCHANGED deps
    /\ UNCHANGED index

\* non_blocking_kb puts a key that was pressed
KeyPressed(ch) ==
    /\ running
    /\ Len(inp) < MaxKeys
    /\ inp' = Append(inp, ch)
    /\ UNCHANGED <<pc, dbg, first, should_quite, screen, key>>
    /\ UNCHANGED <<dirVars, dispatchVars>>
    /\ UNCHANGED runVars
    /\ UNCHANGED cycleVars
    /\ UNCHANGED deps
    /\ UNCHANGED index

\* variant: the poll leaves the token where it is
PollQuitBlind ==
    /\ pc = "top"
    /\ pc' = "inp"
    /\ screen' = <<>> /\ key' = ""
    /\ UNCHANGED <<dbg, first, inp, should_quite>>
    /\ UNCHANGED <<dirVars, dispatchVars>>
    /\ UNCHANGED runVars
    /\ UNCHANGED cycleVars
    /\ UNCHANGED deps
    /\ UNCHANGED index

\* while True: should_quite.get(False)
PollQuit ==
    /\ pc = "top"
    /\ IF should_quite > 0
       THEN /\ should_quite' = should_quite - 1
            /\ pc' = "stopped"
       ELSE /\ pc' = "inp"
            /\ UNCHANGED should_quite
    /\ screen' = <<>> /\ key' = ""
    /\ UNCHANGED <<dbg, first, inp>>
    /\ UNCHANGED <<dirVars, dispatchVars>>
    /\ UNCHANGED runVars
    /\ UNCHANGED cycleVars
    /\ UNCHANGED deps
    /\ UNCHANGED index

\* c = tui.inp.get(False) and the branches on c
PollInp ==
    /\ pc = "inp"
    /\ IF inp = <<>>
       THEN pc' = "mode" /\ UNCHANGED <<inp, key, jobs, screen>>
       ELSE /\ inp' = Tail(inp)
            /\ key' = Head(inp)
            /\ IF Head(inp) = "q"
               THEN pc' = "stopped" /\ UNCHANGED <<jobs, screen>>
               ELSE IF Head(inp) = "r"
               THEN /\ jobs' \in Orders(all_test_paths(fs, dir))
                    /\ pc' = "run_modules"
                    /\ UNCHANGED screen
               ELSE IF Head(inp) = "a"
               THEN /\ screen' = <<Item("about", <<>>), BUTTONS>>
                    /\ pc' = "top"
                    /\ UNCHANGED jobs
               ELSE pc' = "mode" /\ UNCHANGED <<jobs, screen>>
    /\ UNCHANGED <<run, rr, out, dbg, first, should_quite>>
    /\ UNCHANGED dirVars
    /\ UNCHANGED runVars
    /\ UNCHANGED cycleVars
    /\ UNCHANGED deps
    /\ UNCHANGED index

\* tt = dir.test_modules_to_run(), in watcher and in dbg_run
\* (an exception of test_modules_to_run leaves watcher; the Analysis is
\* iterated in some order)
AnalysisOfTick(snap, a) ==
    IF a.exc
    THEN pc' = "crashed" /\ UNCHANGED <<last_snapshot, analysis, jobs>>
    ELSE /\ analysis' = [mod_tt |-> a.mod_tt, mod_pp |-> a.mod_pp]
         /\ last_snapshot' = snap
         /\ jobs' \in Orders(ToRun(a))
         /\ pc' = IF dbg THEN "dbg_run" ELSE "run_modules"

Analyse ==
    /\ pc = "mode"
    /\ AnalysisOfTick(snapshot_now(fs, dir, root_package, static_maps),
                      updated(fs, dir, root_package, last_snapshot,
                              snapshot_now(fs, dir, root_package, static_maps)))
    /\ UNCHANGED <<fs, clock, dir, root_package, static_maps, ncalls, hist>>
    /\ UNCHANGED <<run, rr, out, dbg, first, should_quite, inp, screen, key>>
    /\ UNCHANGED runVars
    /\ UNCHANGED cycleVars
    /\ UNCHANGED deps
    /\ UNCHANGED index

\* run_modules up to run_tests, or all of it when there is nothing to run
RunModules ==
    /\ pc = "run_modules"
    /\ IF jobs # <<>>
       THEN pc' = "run_tests" /\ first' = FALSE /\ UNCHANGED screen
       ELSE /\ pc' = "sleep"
            /\ first' = FALSE
            /\ screen' = IF first THEN <<print_summary(<<>>, FALSE), BUTTONS>> ELSE screen
    /\ UNCHANGED <<dbg, should_quite, inp, key>>
    /\ UNCHANGED <<dirVars, dispatchVars>>
    /\ UNCHANGED runVars
    /\ UNCHANGED cycleVars
    /\ UNCHANGED deps
    /\ UNCHANGED index

\* what run_modules writes after run_tests: print_summary,
\* print_failed_modules, print_suites, print_buttons
render(ss, ee) ==
    <<print_summary(ss, Cardinality(DOMAIN ee) > 0)>>
        \o (IF Cardinality(DOMAIN ee) > 0 THEN <<Item("failed_modules", ee)>> ELSE <<>>)
        \o (IF Len(parsed(ss)) > 0 THEN <<Item("suites", parsed(ss))>> ELSE <<>>)
        \o <<BUTTONS>>

\* what dbg_run writes after run_tests: print_summary, print_args,
\* print_analysis
dbg_render(ss, ee, a) ==
    <<print_summary(ss, Cardinality(DOMAIN ee) > 0), Item("args", <<>>),
      Item("analysis", a)>>

\* the results of pool.map, the subprocess of tt[i] ending with oo[i]
map_run_test_module(root, tt, oo) ==
    [i \in 1..Len(tt) |-> run_test_module(root, tt[i], oo[i])]

\* ss, ee = run_tests(pool, dir, tt) and the rendering that follows it, in
\* run_modules and in dbg_run; an exception of print_summary leaves watcher
RunTestsOfCycle ==
    /\ pc \in {"run_tests", "dbg_run_tests"}
    /\ \E oo \in [1..Len(jobs) -> DriverOutcomes] :
          /\ run' = [i \in 1..Len(jobs) |-> [tm |-> jobs[i], o |-> oo[i]]]
          /\ rr' = map_run_test_module(root_package, jobs, oo)
    /\ out' = Returned(run_tests(rr'))
    /\ IF print_summary_raises(out'.ss)
       THEN pc' = "crashed" /\ UNCHANGED screen
       ELSE IF pc = "run_tests"
       THEN pc' = "sleep" /\ screen' = render(out'.ss, out'.ee)
       ELSE pc' = "prompt" /\ screen' = dbg_render(out'.ss, out'.ee, analysis)
    /\ UNCHANGED jobs
    /\ UNCHANGED <<dbg, first, should_quite, inp, key>>
    /\ UNCHANGED dirVars
    /\ UNCHANGED runVars
    /\ UNCHANGED cycleVars
    /\ UNCHANGED deps
    /\ UNCHANGED index

\* the tick is over: the locals of run_modules and dbg_run are gone
TickEnds ==
    /\ jobs' = <<>> /\ run' = <<>> /\ rr' = <<>> /\ out' = NoOut
    /\ screen' = <<>> /\ key' = ""
    /\ analysis' = NoAnalysis
    /\ UNCHANGED <<fs, clock, dir, root_package, static_maps, last_snapshot, ncalls, hist>>

\* time.sleep(frq) and the return to the head of the loop
Sleep ==
    /\ pc = "sleep"
    /\ pc' = "top"
    /\ TickEnds
    /\ UNCHANGED <<dbg, first, should_quite, inp>>
    /\ UNCHANGED runVars
    /\ UNCHANGED cycleVars
    /\ UNCHANGED deps
    /\ UNCHANGED index

\* variant: dbg_run renders the analysis and launches nothing
DbgRunNoTests ==
    /\ pc = "dbg_run"
    /\ pc' = "prompt"
    /\ screen' = IF jobs # <<>>
                 THEN <<print_summary(<<>>, FALSE), Item("args", <<>>),
                        Item("analysis", analysis)>>
                 ELSE <<print_summary(<<>>, FALSE), Item("args", <<>>),
                        Item("line", "no tests to run")>>
    /\ UNCHANGED <<dbg, first, should_quite, inp, key>>
    /\ UNCHANGED <<dirVars, dispatchVars>>
    /\ UNCHANGED runVars
    /\ UNCHANGED cycleVars
    /\ UNCHANGED deps
    /\ UNCHANGED index

\* dbg_run after the analysis
DbgRun ==
    /\ pc = "dbg_run"
    /\ IF jobs # <<>>
       THEN pc' = "dbg_run_tests" /\ UNCHANGED screen
       ELSE /\ pc' = "prompt"
            /\ screen' = <<print_summary(<<>>, FALSE), Item("args", <<>>),
                           Item("line", "no tests to run")>>
    /\ UNCHANGED <<dbg, first, should_quite, inp, key>>
    /\ UNCHANGED <<dirVars, dispatchVars>>
    /\ UNCHANGED runVars
    /\ UNCHANGED cycleVars
    /\ UNCHANGED deps
    /\ UNCHANGED index

\* input() returns: the user has pressed enter, or stdin is at its end
PromptEnter ==
    /\ pc = "prompt"
    /\ pc' = "top"
    /\ TickEnds
    /\ UNCHANGED <<dbg, first, should_quite, inp>>
    /\ UNCHANGED runVars
    /\ UNCHANGED cycleVars
    /\ UNCHANGED deps
    /\ UNCHANGED index

PromptEOF ==
    /\ pc = "prompt"
    /\ pc' = "stopped"
    /\ UNCHANGED <<dbg, first, should_quite, inp, screen, key>>
    /\ UNCHANGED <<dirVars, dispatchVars>>
    /\ UNCHANGED runVars
    /\ UNCHANGED cycleVars
    /\ UNCHANGED deps
    /\ UNCHANGED index

NextWatcher ==
    \/ \E p \in Edited : Edit(p)
    \/ Sigint
    \/ \E ch \in Keys : KeyPressed(ch)
    \/ PollQuit
    \/ PollInp
    \/ Analyse
    \/ RunModules
    \/ RunTestsOfCycle
    \/ Sleep
    \/ DbgRun
    \/ PromptEnter
    \/ PromptEOF

SpecWatcher == InitWatcher /\ [][NextWatcher]_vars

\* the watcher with no key pressed and no file edited, only SIGINT and the
\* answers to the prompt of dbg_run; the driver runs whenever it can, nothing
\* makes the user answer the prompt
NextQuit ==
    \/ Sigint
    \/ PollQuit
    \/ PollInp
    \/ Analyse
    \/ RunModules
    \/ RunTestsOfCycle
    \/ Sleep
    \/ DbgRun
    \/ PromptEnter
    \/ PromptEOF

\* the driver moves on: a step of the driver leaves the position it is at,
\* and at each of these positions the driver has a step to take
DriverPositions ==
    {"top", "inp", "mode", "run_modules", "run_tests", "sleep", "dbg_run", "dbg_run_tests"}
Positions ==
    DriverPositions \cup {"prompt", "stopped", "crashed", "off", "main", "args", "exit0", "exit1"}
DriverMoves == pc \in DriverPositions /\ pc' \in Positions \ {pc}

SpecQuit == InitWatcher /\ [][NextQuit]_vars /\ WF_pc(DriverMoves)

(***************************************************************************)
(* Properties of the driver                                                *)
(***************************************************************************)
\* the error entries of the results of a cycle
ErrorsOf(results) ==
    UNION {{<<k, results[i].ee[k]>> : k \in DOMAIN results[i].ee} : i \in 1..Len(results)}
Entries_(ee) == {<<k, ee[k]>> : k \in DOMAIN ee}

\* a module of the cycle has failed: its result has no records
SomeModuleFailed == \E i \in 1..Len(rr) : rr[i].ss = <<>>

\* C8: a test module whose run fails (stderr, timeout, no output) neither
\* ends the driver nor the cycle: the records of the other modules and the
\* errors are collected and rendered, and the driver is on its way to the next
\* tick; the driver only falls out of a cycle on a JSON value that is no
\* report.
C8_FailingModuleContained ==
    /\ pc = "crashed" => print_summary_raises(out.ss)
    /\ (/\ out.returned /\ SomeModuleFailed
        /\ ~print_summary_raises(out.ss))
       => /\ pc \in {"sleep", "prompt"} \/ (pc = "stopped" /\ dbg /\ key # "r")
          /\ out.ss = Concat(rr)
          /\ Entries_(out.ee) = ErrorsOf(rr)
          /\ screen # <<>>
          /\ screen[1] = Item("summary", [ss |-> Concat(rr),
                                           red |-> ErrorsOf(rr) # {} \/
                                                   \E i \in 1..Len(out.ss) :
                                                      loads(out.ss[i]) = "JSONDecodeError"])
          /\ (ErrorsOf(rr) # {} /\ (~dbg \/ key = "r"))
                => \E i \in 1..Len(screen) :
                      /\ screen[i].what = "failed_modules"
                      /\ Entries_(screen[i].v) = ErrorsOf(rr)

C8_Witness ==
    /\ pc = "sleep" /\ ~dbg
    /\ Len(rr) = 2
    /\ \E i, j \in 1..2 :
          /\ rr[i] = run_test_module(root_package, jobs[i], O_timeout)
          /\ rr[j] = run_test_module(root_package, jobs[j], O_report)
    /\ \E i \in 1..Len(screen) : screen[i].what = "failed_modules"
    /\ \E i \in 1..Len(screen) : screen[i].what = "suites"

\* C9 as it is claimed: once a quit token is on the quit channel the driver
\* leaves its loop and stops, in normal mode and in debug mode.
C9_QuitStopsDriver ==
    (should_quite > 0) ~> (pc \in {"stopped", "crashed"})

\* C9: the quit token is observed by the poll at the head of the loop only: a
\* poll that finds a token stops the driver and starts nothing, no other
\* position of a cycle is left for the end of the driver but the prompt (end
\* of input), and with a token on the channel the driver comes to its end or
\* to the prompt of dbg_run, where it waits for the user.
C9_QuitObservedAtTop ==
    /\ [][/\ (pc = "top" /\ should_quite > 0) => pc' \in {"top", "stopped"}
          /\ (pc' = "stopped" /\ pc # "stopped") => pc \in {"top", "inp", "prompt"}
          /\ (pc' = "stopped" /\ pc = "top") => should_quite' = should_quite - 1]_vars
    /\ (should_quite > 0) ~> (pc \in {"stopped", "crashed", "prompt"})

C9_Witness ==
    /\ pc = "stopped" /\ ~dbg
    /\ should_quite = 0
    /\ last_snapshot.tt # {}
    /\ ~first

\* C10: a tick that reads 'r' dispatches the full set of the discovered test
\* sources, whatever the differ would select; 'q' makes the driver quit
\* without a dispatch.
C10_RunAllAndQuit ==
    /\ key = "r" =>
          /\ Range(jobs) = test_modules(fs, dir)
          /\ Len(jobs) = Cardinality(test_modules(fs, dir))
          /\ pc \in {"run_modules", "run_tests", "sleep", "crashed"}
          /\ pc \in {"sleep", "crashed"} => (out.returned /\ Len(rr) = Len(jobs))
    /\ key = "q" =>
          (pc = "stopped" /\ jobs = <<>> /\ rr = <<>> /\ ~out.returned)

C10_Witness ==
    /\ key = "r" /\ pc = "sleep"
    /\ last_snapshot.tt # {}
    /\ Len(rr) = 2
    /\ Range(jobs) = {F_suffix_test, F_test_dir}
    /\ ToRun(updated(fs, dir, root_package, last_snapshot,
                     snapshot_now(fs, dir, root_package, static_maps)))
          # Range(jobs)

(***************************************************************************)
(* The program: __main__                                                   *)
(*   pc: main (before Dir(os.getcwd())), args (before process_args),       *)
(*       exit1 (DirNoPackage: sys.exit(1)), exit0 (--help: sys.exit(0)),   *)
(*       then the positions of watcher                                     *)
(***************************************************************************)
\* the arguments of the command line
A_dbg == [opt |-> "--dbg"]
A_help == [opt |-> "--help"]
A_frequency == [opt |-> "--frequency="]
A_map(ps, ts) == [opt |-> "--map=", p |-> ps, t |-> ts]
ArgSet == {A_dbg, A_help, A_frequency} \cup {A_map(ps, ts) : ps \in MapProds, ts \in MapTests}

Argvs == UNION {[1..n -> ArgSet] : n \in 0..MaxArgs}

\* the working directories the program is started in
MainDirs == {P_src, P_pkg, P_w, P_tests, P_flat, P_data}

\* no Dir has been constructed; the construction has raised DirNoPackage
Unbuilt == [none |-> TRUE, raised |-> FALSE]
DirNoPackage == [none |-> TRUE, raised |-> TRUE]
NoRoot == <<>>
Built == "none" \notin DOMAIN last_snapshot

\* Dir.__init__: [raised, root, snapshot]
dir_init(f, d, sm) ==
    IF is_package(f, d)
    THEN [raised |-> FALSE, root |-> ClimbToRoot(f, d), snapshot |-> EmptySnapshot(mappings(sm))]
    ELSE [raised |-> TRUE, root |-> NoRoot, snapshot |-> DirNoPackage]

\* process_args: [help, dbg]; the loop has no branch for ARG_MAP
process_args(argv) ==
    [help |-> \E i \in 1..Len(argv) : argv[i].opt = "--help",
     dbg |-> \E i \in 1..Len(argv) : argv[i].opt = "--dbg"]

InitMain ==
    /\ fs = WatcherFs
    /\ clock = 0
    /\ dir \in MainDirs
    /\ root_package = NoRoot
    /\ static_maps = NoMaps
    /\ last_snapshot = Unbuilt
    /\ analysis = NoAnalysis
    /\ ncalls = 0
    /\ hist \in {[NoHist EXCEPT !.argv = av] : av \in Argvs}
    /\ DispatcherOff
    /\ pc = "main" /\ dbg = FALSE /\ first = TRUE
    /\ should_quite = 0
    /\ inp = <<>> /\ screen = <<>> /\ key = ""
    /\ RunnerOff
    /\ CycleOff
    /\ ExtractorOff
    /\ IndexOff

\* dir = Dir(os.getcwd()): Dir.__init__, or DirNoPackage and sys.exit(1)
Construct ==
    /\ pc = "main"
    /\ root_package' = dir_init(fs, dir, static_maps).root
    /\ last_snapshot' = dir_init(fs, dir, static_maps).snapshot
    /\ pc' = IF dir_init(fs, dir, static_maps).raised THEN "exit1" ELSE "args"
    /\ UNCHANGED <<fs, clock, dir, static_maps, analysis, ncalls, hist>>
    /\ UNCHANGED <<dbg, first, should_quite, inp, screen, key>>
    /\ UNCHANGED dispatchVars
    /\ UNCHANGED runVars
    /\ UNCHANGED cycleVars
    /\ UNCHANGED deps
    /\ UNCHANGED index

\* frq, dbg = process_args(dir), then watcher(dir, quitQueue, frq, dbg)
ProcessArgs ==
    /\ pc = "args"
    /\ IF process_args(hist.argv).help
       THEN pc' = "exit0" /\ UNCHANGED dbg
       ELSE pc' = "top" /\ dbg' = process_args(hist.argv).dbg
    /\ UNCHANGED <<first, should_quite, inp, screen, key>>
    /\ UNCHANGED <<dirVars, dispatchVars>>
    /\ UNCHANGED runVars
    /\ UNCHANGED cycleVars
    /\ UNCHANGED deps
    /\ UNCHANGED index

NextMain ==
    \/ Construct
    \/ ProcessArgs
    \/ Sigint
    \/ PollQuit
    \/ PollInp
    \/ Analyse
    \/ RunModules
    \/ RunTestsOfCycle
    \/ Sleep
    \/ DbgRun
    \/ PromptEnter
    \/ PromptEOF

SpecMain == InitMain /\ [][NextMain]_vars

\* the mapping of a --map argument is registered in a dict of static mappings
Registered(arg, sm) ==
    /\ map_key(fs, root_package, arg.p) \in DOMAIN sm
    /\ map_target(fs, root_package, arg.t) \in Range(sm[map_key(fs, root_package, arg.p)])

\* C12: once the driver runs, every --map=PROD->TEST of the command line is
\* registered on the watched Dir, and every snapshot captured by a cycle
\* carries it
C12_MapOptionRegisters ==
    (running /\ pc # "args") =>
        \A i \in 1..Len(hist.argv) :
            hist.argv[i].opt = "--map=" =>
                /\ Registered(hist.argv[i], mappings(static_maps))
                /\ last_snapshot.tt # {} => Registered(hist.argv[i], last_snapshot.sm)

(***************************************************************************)
(* Dir over further trees: construction, discovery, analysis               *)
(***************************************************************************)
\* the package markers that some of the trees lack
Markers == {Join(P_pkg, <<INIT_PY>>), Join(P_tests, <<INIT_PY>>), Join(P_flat, <<INIT_PY>>)}

Trees ==
    {[p \in (Universe \ (Chained \cup Broken)) \ gone |-> [kind |-> KindOf[p], mtime |-> 0]] :
       gone \in SUBSET Markers}

\* the files touched, and the marker removed, after the construction
TreeTouched == {F_compile_test, F_deep}
TreeRemoved == {Join(P_pkg, <<INIT_PY>>)}

InitTree ==
    /\ fs \in Trees
    /\ clock = 0
    /\ dir \in MainDirs
    /\ root_package = NoRoot
    /\ static_maps = NoMaps
    /\ last_snapshot = Unbuilt
    /\ analysis = NoAnalysis
    /\ ncalls = 0
    /\ hist = NoHist
    /\ DispatcherOff
    /\ DriverOff
    /\ RunnerOff
    /\ CycleOff
    /\ ExtractorOff
    /\ IndexOff

\* w = Dir(dir)
NewDir ==
    /\ last_snapshot = Unbuilt
    /\ root_package' = dir_init(fs, dir, static_maps).root
    /\ last_snapshot' = dir_init(fs, dir, static_maps).snapshot
    /\ UNCHANGED <<fs, clock, dir, static_maps, analysis, ncalls, hist>>
    /\ UNCHANGED <<dispatchVars, driverVars>>
    /\ UNCHANGED runVars
    /\ UNCHANGED cycleVars
    /\ UNCHANGED deps
    /\ UNCHANGED index

NextTree ==
    \/ NewDir
    \/ Built /\ \E p \in TreeTouched : Touch(p)
    \/ Built /\ \E p \in TreeRemoved : Delete(p)
    \/ Built /\ TestModulesToRun

SpecTree == InitTree /\ [][NextTree]_vars

(***************************************************************************)
(* Debug mode                                                              *)
(***************************************************************************)
\* C11 (as stated): in debug mode no test subprocess is launched: no result
\* of a test run exists in a tick of a driver started with --dbg
C11_DebugLaunchesNothing == dbg => rr = <<>>

\* C11 (amended): in debug mode a tick that is not a forced run goes through
\* dbg_run and never through run_modules; when the driver waits in the prompt
\* it has computed the Analysis, has run every picked test module through
\* the dispatcher and has written the summary of that run, the arguments and
\* the Analysis (or, with nothing picked, an empty summary, the arguments and
\* 'no tests to run', having run nothing); only debug mode reaches the prompt
C11_DebugRunsThenRenders ==
    /\ pc \in {"dbg_run", "dbg_run_tests", "prompt"} => dbg
    /\ (dbg /\ key # "r") => pc \notin {"run_modules", "run_tests", "sleep"}
    /\ pc = "prompt" =>
          /\ Range(jobs) = ToRun(analysis)
          /\ Len(jobs) = Cardinality(ToRun(analysis))
          /\ Len(screen) = 3
          /\ screen[1].what = "summary"
          /\ screen[2].what = "args"
          /\ IF ToRun(analysis) = {}
             THEN /\ rr = <<>> /\ ~out.returned
                  /\ screen[1].v.ss = <<>>
                  /\ screen[3] = Item("line", "no tests to run")
             ELSE /\ Len(rr) = Len(jobs) /\ out.returned
                  /\ screen[1].v.ss = out.ss
                  /\ screen[3] = Item("analysis", analysis)

\* the driver waits in the prompt after a debug cycle that ran tests picked
\* for a modified production module
C11_Witness ==
    /\ pc = "prompt" /\ dbg
    /\ Len(rr) >= 1
    /\ DOMAIN analysis.mod_pp # {}

(***************************************************************************)
(* Run-soft errors                                                         *)
(***************************************************************************)
\* the failed-modules group of the screen lists the module
InFailedGroup(tm) ==
    \E k \in 1..Len(screen) :
        screen[k].what = "failed_modules" /\ BelowRoot(tm) \in DOMAIN screen[k].v

\* C13 (as stated): when a cycle has rendered, a module whose run wrote
\* nothing to stdout and nothing to stderr and did not time out is listed in
\* the failed-modules group under its path below the root package
C13_SilentModuleReported ==
    (pc = "sleep" /\ out.returned) =>
        \A i \in 1..Len(run) : run[i].o = O_silent => InFailedGroup(run[i].tm)

\* C13 (amended): when a cycle has rendered, the modules that timed out or
\* wrote to stderr are exactly the modules of the error map and of the
\* failed-modules group, each under its path below the root package; a module
\* whose run wrote nothing at all has returned no record and no error and is
\* not in the group, and a cycle of such modules alone renders a summary of
\* no records that is not marked failed, and no failed-modules group
C13_SilentModuleUnreported ==
    (pc = "sleep" /\ out.returned) =>
        /\ \A i \in 1..Len(run) :
              /\ (run[i].o.timeout \/ run[i].o.stderr # <<>>)
                    <=> BelowRoot(run[i].tm) \in DOMAIN out.ee
              /\ BelowRoot(run[i].tm) \in DOMAIN out.ee <=> InFailedGroup(run[i].tm)
              /\ run[i].o = O_silent => rr[i] = Result(<<>>, <<>>)
        /\ (\A i \in 1..Len(run) : run[i].o = O_silent) =>
              screen = <<Item("summary", [ss |-> <<>>, red |-> FALSE]), BUTTONS>>

\* a cycle has rendered in which one module wrote nothing at all and another
\* wrote to stderr
C13_Witness ==
    /\ pc = "sleep" /\ out.returned
    /\ \E i, j \in 1..Len(run) : run[i].o = O_silent /\ run[j].o = O_stderr

(***************************************************************************)
(* Splitting of stdout                                                     *)
(***************************************************************************)
\* the module run last has written objects to stdout and nothing to stderr
RanToObjects ==
    /\ run # <<>>
    /\ ~run[1].o.timeout /\ run[1].o.stderr = <<>>
    /\ run[1].o.stdout # <<>>
    /\ is_json_objects(run[1].o.stdout)

\* the records are the objects of stdout, one each, and nothing is lost
SplitIntoObjects(stdout, ss) ==
    /\ Len(ss) = Cardinality(objects_of(stdout))
    /\ \A i \in 1..Len(ss) : is_json_object(ss[i])
    /\ join(NL, ss) = stdout

\* a text in which a '{' follows a newline exactly where it opens an object
\* that is not nested in another, the first object excepted: the layout of
\* TDD.print
ReporterLayout(s) ==
    /\ s[1] = "{"
    /\ \A i \in 2..Len(s) : s[i] = "{" => (s[i - 1] = "\n" <=> Depth(s, i - 1) = 0)

\* C14 (as stated): for every stdout that is a concatenation of JSON objects
\* the returned list has one element per object, every element is a single
\* JSON object and the elements joined with a newline are the stdout
C14_SplitsEveryConcatenation ==
    RanToObjects => SplitIntoObjects(run[1].o.stdout, rr[Len(rr)].ss)

\* C14 (amended): so it is for every stdout whose objects are laid out as
\* the reporter writes them, a newline directly before every object but the
\* first and no line within an object that begins with '{'; and for every
\* stdout of objects the elements joined with a newline are the stdout
C14_SplitsReporterLayout ==
    RanToObjects =>
        /\ join(NL, rr[Len(rr)].ss) = run[1].o.stdout
        /\ ReporterLayout(run[1].o.stdout) =>
              SplitIntoObjects(run[1].o.stdout, rr[Len(rr)].ss)

\* two reports as TDD.print writes them have been split into two records
C14_Witness ==
    /\ RanToObjects
    /\ run[1].o.stdout = TDD_RECORD \o TDD_RECORD
    /\ ReporterLayout(run[1].o.stdout)
    /\ rr[Len(rr)].ss = <<SubSeq(TDD_RECORD, 1, Len(TDD_RECORD) - 1), TDD_RECORD>>

(***************************************************************************)
(* Properties of the import extractor                                      *)
(***************************************************************************)
\* what TM(t).production_dependencies() yields in the tree as it is
DepsOf(t) == production_dependencies(fs, sub_packages(fs, dir), root_package, t)

\* the discovered test sources that do not parse
Unparsable == {t \in test_modules(fs, dir) : ~SrcOf[t].ok}

\* C15: a test source that cannot be parsed yields no dependency and raises
\* nothing; the call of test_modules_to_run returns, every modified
\* production module is reported with exactly the test sources that depend
\* on it, and the unparsable test source is in the to-run set of the first
\* call and of a call after it alone was touched
C15_UnparsableTestSource ==
    Built =>
        \A t \in Unparsable :
            /\ DepsOf(t) = [exc |-> FALSE, deps |-> {}]
            /\ hist.fresh =>
                  /\ (ncalls = 1 \/ hist.gap = {Ev("touch", t)}) => t \in ToRun(analysis)
                  /\ \A q \in DOMAIN analysis.mod_pp :
                        analysis.mod_pp[q] =
                            {u \in test_modules(fs, dir) : q \in DepsOf(u).deps}

\* the second call has returned after compile_test.py alone was touched, and
\* has picked it alone
C15_Witness ==
    /\ Built /\ hist.fresh /\ ncalls = 2
    /\ F_compile_test \in Unparsable
    /\ hist.gap = {Ev("touch", F_compile_test)}
    /\ ToRun(analysis) = {F_compile_test}

\* the test sources that import a name through an aggregator module:
\* [t, a, ms, m]: t does 'from ms import n', ms is the module string of the
\* aggregator a, and m is the module that a re-exports n from
ReExports ==
    {[t |-> F_star_test, a |-> F_star, ms |-> <<S_pkg, S_w, <<"flat">>, <<"star">> >>,
      m |-> F_deep],
     [t |-> F_named_test, a |-> F_named, ms |-> <<S_pkg, S_w, <<"flat">>, <<"named">> >>,
      m |-> F_deep]}

\* C16: where a discovered test source imports a name from a module string
\* that resolves to an aggregator which re-exports it from the module M
\* ('from M import *' where M is named n, 'from M import n'), M's file is in the dependency set of the test source, and the test source is
\* in the to-run set of the call after M's file alone was touched
C16_ReExportFollowed ==
    Built =>
        \A x \in ReExports :
            (/\ x.t \in test_modules(fs, dir)
             /\ import_to_module(fs, root_package, x.ms, x.t) = Some(x.a)
             /\ exists(fs, x.m))
            => /\ x.m \in DepsOf(x.t).deps
               /\ (hist.fresh /\ hist.gap = {Ev("touch", x.m)}) => x.t \in ToRun(analysis)

(***************************************************************************)
(* Properties of the walker and of the construction                        *)
(***************************************************************************)
\* the directory holds a file named __init__.py
HasMarker(d) ==
    \E e \in DOMAIN fs : Parent(e) = d /\ Name(e) = INIT_PY /\ fs[e].kind = "file"

\* the directories from the watched dir (excluded) down to q (included)
Below(q) == {SubSeq(q, 1, k) : k \in (Len(dir) + 1)..Len(q)}

\* q is the watched dir or is reached from it through packages that are not
\* ignored
Reached(q) ==
    /\ IsPrefix(dir, q)
    /\ \A a \in Below(q) : is_dir(fs, a) /\ HasMarker(a) /\ Name(a) \notin IGNORE_PACKAGES

\* C17: test_modules() returns exactly the files that satisfy is_test_module
\* and lie directly in the watched dir or in a directory reached from it
\* through a chain of packages none of which is ignored
C17_DiscoveryExact ==
    Built =>
        test_modules(fs, dir) =
            {p \in DOMAIN fs : fs[p].kind = "file" /\ is_test_module(p) /\ Reached(Parent(p))}

\* the walk of pkg/w has kept away from data, data/sub and __pycache__ and
\* has gone into tests and failed
C17_Witness ==
    /\ Built /\ dir = P_w
    /\ {F_test_dir, F_compile_test, F_suffix_test} \subseteq test_modules(fs, dir)
    /\ {F_test_hidden, F_test_sub, F_test_cached} \cap test_modules(fs, dir) = {}
    /\ {F_test_hidden, F_test_sub, F_test_cached} \subseteq DOMAIN fs

\* C18: the root package that the construction computes is the watched dir
\* or an ancestor of it, holds the marker, its parent does not, and every
\* directory from it down to the watched dir holds the marker; whatever
\* happens to the tree afterwards, the root package stays what it is
C18_RootPackage ==
    [][/\ (last_snapshot = Unbuilt /\ Built') =>
              /\ IsPrefix(root_package', dir')
              /\ HasMarker(root_package')
              /\ ~HasMarker(Parent(root_package'))
              /\ \A k \in Len(root_package')..Len(dir') : HasMarker(SubSeq(dir', 1, k))
       /\ Built => root_package' = root_package]_vars

\* the Dir of pkg/w/tests has the root package pkg, and the marker of pkg has
\* been removed since
C18_Witness ==
    /\ Built /\ dir = P_tests /\ root_package = P_pkg
    /\ ~exists(fs, Join(P_pkg, <<INIT_PY>>))

\* C19: the construction for a directory that holds no file named
\* __init__.py raises DirNoPackage and leaves no Dir; for a directory that
\* holds one it yields a Dir whose previous snapshot is empty
C19_ConstructionChecksPackage ==
    [][(last_snapshot = Unbuilt /\ last_snapshot' # Unbuilt) =>
          IF HasMarker(dir)
          THEN /\ Built'
               /\ last_snapshot'.tt = {} /\ last_snapshot'.pp = {}
               /\ DOMAIN last_snapshot'.mt = {}
          ELSE /\ last_snapshot' = DirNoPackage
               /\ root_package' = NoRoot]_vars

\* the construction for data, which holds a directory named __init__.py, has
\* raised DirNoPackage
C19_Witness ==
    /\ last_snapshot = DirNoPackage
    /\ dir = P_data
    /\ is_dir(fs, Join(P_data, <<INIT_PY>>))

\* C20: every discovered test source, and every test source of the previous
\* snapshot, is a .py file
C20_TestSourcesArePy ==
    Built =>
        /\ \A t \in test_modules(fs, dir) : EndsWithPy(Name(t))
        /\ \A t \in last_snapshot.tt : EndsWithPy(Name(t))

(***************************************************************************)
(* testing.run: the runner of a suite (src/src/tddflow/testing.py), the T  *)
(* handed to the methods of the suite (_internal/assert_.py) and the       *)
(* Report they fill (_internal/reporting.py).  The reporter is             *)
(* reporting.TDD, which run chooses for --report=json and which counts the *)
(* tests; config.single is empty.                                          *)
(***************************************************************************)
INITIALIZATION == "initialization"
FINALIZE == "finalize"

\* the names of n test methods, in the order of dir(suite)
test_names(n) == [i \in 1..n |-> "test_" \o ToString(i)]

\* _suite_methods: the special methods found and the names of the tests
Suites ==
    [init : BOOLEAN, setup : BOOLEAN, tear_down : BOOLEAN, finalize : BOOLEAN,
     tt : {test_names(n) : n \in 0..MaxTests}]

\* Report.fail
fail(r, name) ==
    IF name \in r.failed
    THEN r
    ELSE [r EXCEPT !.failed = @ \cup {name}, !.fails_count = @ + 1]

\* Report.log: the test gets an entry in Report.tests
log(r, name) == [r EXCEPT !.logged = @ \cup {name}]

\* TDD.increase_test_count
increase_test_count(r) == [r EXCEPT !.test_count = @ + 1]

\* T.failed: flags the test, logs file and line and the message
failed(r, name) == log(fail(r, name), name)

\* a statement of a test method: a call of a method of T, or a raise
Stmt(op, b, msg) == [op |-> op, b |-> b, log |-> msg]
Stmts ==
    {Stmt("log", TRUE, "m"), Stmt("truthy", FALSE, ""),
     Stmt("fatal", FALSE, ""), Stmt("fatal", FALSE, "m"),
     Stmt("fatal_if_not", FALSE, ""), Stmt("fatal_if_not", FALSE, "m"),
     Stmt("fatal_if_not", TRUE, ""), Stmt("raise", FALSE, "")}
Bodies == UNION {[1..n -> Stmts] : n \in 0..MaxStmts}

\* what a statement leaves: the report and the exception raised, if any
Went(r) == [r |-> r, raised |-> "returned"]
Threw(r, exc) == [r |-> r, raised |-> exc]

\* T.truthy
truthy(r, name, value) == IF value THEN Went(r) ELSE Went(failed(r, name))

\* T.fatal
fatal(r, name, msg) ==
    IF msg # "" THEN Threw(failed(r, name), "FatalError") ELSE Threw(r, "FatalError")

\* T.fatal_if_not
fatal_if_not(r, name, b, msg) == IF b THEN Went(r) ELSE fatal(r, name, msg)

statement(r, name, st) ==
    CASE st.op = "log" -> Went(log(r, name))
      [] st.op = "truthy" -> truthy(r, name, st.b)
      [] st.op = "fatal" -> fatal(r, name, st.log)
      [] st.op = "fatal_if_not" -> fatal_if_not(r, name, st.b, st.log)
      [] st.op = "raise" -> Threw(r, "Exception")

\* test(t): the statements run one after the other until one raises
RECURSIVE call_test(_, _, _, _)
call_test(r, name, stmts, k) ==
    IF k > Len(stmts)
    THEN [r |-> r, executed |-> Len(stmts), how |-> "returned"]
    ELSE LET w == statement(r, name, stmts[k])
         IN  IF w.raised = "returned"
             THEN call_test(w.r, name, stmts, k + 1)
             ELSE [r |-> w.r, executed |-> k, how |-> w.raised]

\* _run_suite: try: test(t); counter() except _FatalError: pass
\* except Exception: t.failed(...)
run_test(r, name, stmts) ==
    LET c == call_test(r, name, stmts, 1)
    IN  CASE c.how = "returned" -> [c EXCEPT !.r = increase_test_count(c.r)]
          [] c.how = "FatalError" -> c
          [] c.how = "Exception" -> [c EXCEPT !.r = failed(c.r, name)]

\* how a call of a special method ends: it returns or it raises
Ends == {"returned", "raised"}

\* variant: the run goes on after an init that raised
run_init_going_on(r, e) ==
    CASE e = "returned" -> [r |-> r, ok |-> TRUE]
      [] e = "raised" -> [r |-> failed(fail(r, INITIALIZATION), INITIALIZATION), ok |-> TRUE]

\* _run_init
run_init(r, e) ==
    CASE e = "returned" -> [r |-> r, ok |-> TRUE]
      [] e = "raised" -> [r |-> failed(fail(r, INITIALIZATION), INITIALIZATION), ok |-> FALSE]

\* variant: a setup that raised is reported as passed
run_setup_passing(r, name, e) ==
    CASE e = "returned" -> [r |-> r, ok |-> TRUE]
      [] e = "raised" -> [r |-> failed(r, name), ok |-> TRUE]

\* _run_setup
run_setup(r, name, e) ==
    CASE e = "returned" -> [r |-> r, ok |-> TRUE]
      [] e = "raised" -> [r |-> failed(r, name), ok |-> FALSE]

\* _run_tear_down
run_tear_down(r, name, e) == IF e = "returned" THEN r ELSE failed(r, name)

\* _run_finalize
run_finalize(r, e) ==
    CASE e = "returned" -> r
      [] e = "raised" -> failed(fail(r, FINALIZE), FINALIZE)

\* TDD.print: the JSON object written, and the number of calls made before
tdd_print(r, n) ==
    [tests_count |-> r.test_count, fails_count |-> r.fails_count,
     fails |-> r.failed, test_logs |-> r.logged, after |-> n]

Call(m, name, how) == [m |-> m, name |-> name, how |-> how]
At(in, i) == [in |-> in, i |-> i]
Done == At("done", 0)

\* variant: the loop calls the test without its setup
loop_without_setup(tt, j) == IF j <= Len(tt) THEN At("test", j) ELSE At("finalize", 0)

\* for name in tt: the position at the j-th test, or behind the loop
loop(tt, j) == IF j <= Len(tt) THEN At("setup", j) ELSE At("finalize", 0)

InitRun ==
    /\ InitDir /\ DispatcherOff /\ DriverOff
    /\ suite \in Suites
    /\ report = NoReport /\ printed = <<>> /\ calls = <<>>
    /\ at = At("init", 0)
    /\ body = NoBody
    /\ CycleOff
    /\ ExtractorOff
    /\ IndexOff

\* _run_init(ss, report, suite, config)
RunInit(e) ==
    /\ at.in = "init"
    /\ IF suite.init
       THEN LET res == run_init(report, e)
            IN  /\ calls' = Append(calls, Call("init", INITIALIZATION, e))
                /\ report' = res.r
                /\ IF res.ok
                   THEN at' = loop(suite.tt, 1) /\ UNCHANGED printed
                   ELSE /\ printed' = Append(printed, tdd_print(res.r, Len(calls')))
                        /\ at' = Done
       ELSE /\ e = "returned"
            /\ at' = loop(suite.tt, 1)
            /\ UNCHANGED <<calls, report, printed>>
    /\ UNCHANGED <<suite, body>>
    /\ UNCHANGED <<dirVars, dispatchVars, driverVars>>
    /\ UNCHANGED cycleVars
    /\ UNCHANGED deps
    /\ UNCHANGED index

\* _run_setup(ss, t)
RunSetup(e) ==
    /\ at.in = "setup"
    /\ IF suite.setup
       THEN LET res == run_setup(report, suite.tt[at.i], e)
            IN  /\ calls' = Append(calls, Call("setup", suite.tt[at.i], e))
                /\ report' = res.r
                /\ at' = IF res.ok THEN At("test", at.i) ELSE At("tear_down", at.i)
       ELSE /\ e = "returned"
            /\ at' = At("test", at.i)
            /\ UNCHANGED <<calls, report>>
    /\ UNCHANGED <<suite, printed, body>>
    /\ UNCHANGED <<dirVars, dispatchVars, driverVars>>
    /\ UNCHANGED cycleVars
    /\ UNCHANGED deps
    /\ UNCHANGED index

\* test(t); counter()
RunTest(stmts) ==
    /\ at.in = "test"
    /\ LET res == run_test(report, suite.tt[at.i], stmts)
       IN  /\ calls' = Append(calls, Call("test", suite.tt[at.i], res.how))
           /\ report' = res.r
           /\ body' = [name |-> suite.tt[at.i], len |-> Len(stmts),
                       executed |-> res.executed,
                       last |-> IF res.executed = 0 THEN "none" ELSE stmts[res.executed].op,
                       how |-> res.how]
    /\ at' = At("tear_down", at.i)
    /\ UNCHANGED <<suite, printed>>
    /\ UNCHANGED <<dirVars, dispatchVars, driverVars>>
    /\ UNCHANGED cycleVars
    /\ UNCHANGED deps
    /\ UNCHANGED index

\* _run_tear_down(ss, t)
RunTearDown(e) ==
    /\ at.in = "tear_down"
    /\ IF suite.tear_down
       THEN /\ calls' = Append(calls, Call("tear_down", suite.tt[at.i], e))
            /\ report' = run_tear_down(report, suite.tt[at.i], e)
       ELSE /\ e = "returned"
            /\ UNCHANGED <<calls, report>>
    /\ at' = loop(suite.tt, at.i + 1)
    /\ body' = NoBody
    /\ UNCHANGED <<suite, printed>>
    /\ UNCHANGED <<dirVars, dispatchVars, driverVars>>
    /\ UNCHANGED cycleVars
    /\ UNCHANGED deps
    /\ UNCHANGED index

\* _run_finalize(ss, report)
RunFinalize(e) ==
    /\ at.in = "finalize"
    /\ IF suite.finalize
       THEN /\ calls' = Append(calls, Call("finalize", FINALIZE, e))
            /\ report' = run_finalize(report, e)
       ELSE /\ e = "returned"
            /\ UNCHANGED <<calls, report>>
    /\ at' = At("print", 0)
    /\ UNCHANGED <<suite, printed, body>>
    /\ UNCHANGED <<dirVars, dispatchVars, driverVars>>
    /\ UNCHANGED cycleVars
    /\ UNCHANGED deps
    /\ UNCHANGED index

\* report.print(suite.__class__.__name__, config.out)
ReportPrint ==
    /\ at.in = "print"
    /\ printed' = Append(printed, tdd_print(report, Len(calls)))
    /\ at' = Done
    /\ UNCHANGED <<suite, report, calls, body>>
    /\ UNCHANGED <<dirVars, dispatchVars, driverVars>>
    /\ UNCHANGED cycleVars
    /\ UNCHANGED deps
    /\ UNCHANGED index

NextRun ==
    \/ \E e \in Ends : RunInit(e)
    \/ \E e \in Ends : RunSetup(e)
    \/ \E stmts \in Bodies : RunTest(stmts)
    \/ \E e \in Ends : RunTearDown(e)
    \/ \E e \in Ends : RunFinalize(e)
    \/ ReportPrint

SpecRun == InitRun /\ [][NextRun]_vars

(***************************************************************************)
(* Properties of testing.run                                               *)
(***************************************************************************)
\* the methods called so far, without how they ended
Methods == [k \in 1..Len(calls) |-> <<calls[k].m, calls[k].name>>]

\* init, then setup, test and tear_down of every test in turn, then finalize
FullOrder(tt) ==
    [k \in 1..(3 * Len(tt) + 2) |->
        IF k = 1 THEN <<"init", INITIALIZATION>>
        ELSE IF k = 3 * Len(tt) + 2 THEN <<"finalize", FINALIZE>>
        ELSE <<(<<"setup", "test", "tear_down">>)[((k - 2) % 3) + 1],
               tt[((k - 2) \div 3) + 1]>>]

AllSpecials == suite.init /\ suite.setup /\ suite.tear_down /\ suite.finalize

\* a call of method m for name has ended with how
Called(m, name, how) == \E k \in 1..Len(calls) : calls[k] = Call(m, name, how)
CalledAtAll(m, name) == \E k \in 1..Len(calls) : calls[k].m = m /\ calls[k].name = name

InitRaised == Called("init", INITIALIZATION, "raised")
SomeSetupRaised == \E k \in 1..Len(calls) : calls[k].m = "setup" /\ calls[k].how = "raised"

\* C21: on a suite that defines init, setup, tear_down and finalize, with no
\* init and no setup raising, the methods are called in the order init, then
\* setup, test, tear_down for every test, then finalize, each once, and the
\* report is printed once, after finalize
C21_SpecialsInOrder ==
    (AllSpecials /\ ~InitRaised /\ ~SomeSetupRaised) =>
        /\ Len(Methods) <= Len(FullOrder(suite.tt))
        /\ Methods = SubSeq(FullOrder(suite.tt), 1, Len(Methods))
        /\ IF at = Done
           THEN /\ Methods = FullOrder(suite.tt)
                /\ Len(printed) = 1
                /\ printed[1].after = Len(calls)
           ELSE printed = <<>>

\* the run of a suite with all special methods and two tests, one of them
\* stopped by t.fatal, has ended
C21_Witness ==
    /\ at = Done /\ AllSpecials /\ ~InitRaised /\ ~SomeSetupRaised
    /\ Len(suite.tt) = MaxTests
    /\ \E k \in 1..Len(calls) : calls[k].m = "test" /\ calls[k].how = "FatalError"

\* C22: after an init that raised no other method of the suite is called,
\* 'initialization' is flagged failed and the report is printed
C22_InitRaisesEndsRun ==
    InitRaised =>
        /\ at = Done
        /\ calls = <<Call("init", INITIALIZATION, "raised")>>
        /\ INITIALIZATION \in report.failed
        /\ Len(printed) = 1
        /\ INITIALIZATION \in printed[1].fails
        /\ printed[1].fails_count = 1

\* the init of a suite with setup, tear_down, finalize and tests has raised
C22_Witness ==
    /\ InitRaised /\ AllSpecials /\ Len(suite.tt) = MaxTests
    /\ at = Done

\* C23: a test whose setup raised is not called and is flagged failed, its
\* tear_down is called next, and the run goes on: every other test is called
\* unless its own setup raised, finalize is called and the report is printed
C23_SetupRaisesSkipsTest ==
    /\ \A k \in 1..Len(calls) :
          (calls[k].m = "setup" /\ calls[k].how = "raised") =>
              /\ ~CalledAtAll("test", calls[k].name)
              /\ calls[k].name \in report.failed
              /\ suite.tear_down =>
                    IF k = Len(calls)
                    THEN at.in = "tear_down" /\ suite.tt[at.i] = calls[k].name
                    ELSE calls[k + 1].m = "tear_down" /\ calls[k + 1].name = calls[k].name
    /\ (at = Done /\ ~InitRaised) =>
          /\ \A i \in 1..Len(suite.tt) :
                /\ ~Called("setup", suite.tt[i], "raised") => CalledAtAll("test", suite.tt[i])
                /\ suite.setup => CalledAtAll("setup", suite.tt[i])
                /\ suite.tear_down => CalledAtAll("tear_down", suite.tt[i])
          /\ suite.finalize => calls[Len(calls)].m = "finalize"
          /\ Len(printed) = 1
          /\ \A i \in 1..Len(suite.tt) :
                Called("setup", suite.tt[i], "raised") => suite.tt[i] \in printed[1].fails

\* the setup of the first test has raised, the second test has been called,
\* and the run has ended
C23_Witness ==
    /\ at = Done /\ AllSpecials /\ Len(suite.tt) = 2
    /\ Called("setup", suite.tt[1], "raised")
    /\ Called("tear_down", suite.tt[1], "returned")
    /\ Called("test", suite.tt[2], "returned")
    /\ Called("finalize", FINALIZE, "returned")

\* C24: a test stopped by t.fatal(...) or by t.fatal_if_not(b) with a falsy b
\* has run no statement after that call, is flagged failed, gets its
\* tear_down, and the tests after it are called
C24_FatalStopsAndFails ==
    /\ body.how = "FatalError" =>
          /\ body.last \in {"fatal", "fatal_if_not"}
          /\ body.name \in report.failed
    /\ \A k \in 1..Len(calls) :
          (calls[k].m = "test" /\ calls[k].how = "FatalError") =>
              /\ calls[k].name \in report.failed
              /\ suite.tear_down =>
                    IF k = Len(calls)
                    THEN at.in = "tear_down"
                    ELSE calls[k + 1].m = "tear_down" /\ calls[k + 1].name = calls[k].name
    /\ (at = Done /\ ~InitRaised) =>
          \A i \in 1..Len(suite.tt) :
              ~Called("setup", suite.tt[i], "raised") => CalledAtAll("test", suite.tt[i])

\* the tests called so far
TestsRun == {k \in 1..Len(calls) : calls[k].m = "test"}

\* C25: the report printed at the end of a run has the number of the tests
\* that were run as tests_count and the number of the names flagged failed
\* as fails_count
C25_ReportCounts ==
    (at = Done /\ ~InitRaised) =>
        /\ printed[1].tests_count = Cardinality(TestsRun)
        /\ printed[1].fails_count = Cardinality(printed[1].fails)
        /\ printed[1].fails = report.failed

(***************************************************************************)
(* The cycle of the driver, task by task: test_modules_to_run as the       *)
(* capture of now, the pool.map of the dependency generator and the diff   *)
(* with the swap; run_tests as the launch of the tasks, their ends and the *)
(* collection of the results.  The files are edited at any moment.         *)
(*   pc, in addition: diff (now is captured), deps (pool.map(dep_gen) is   *)
(*       under way), tests and dbg_tests (pool.map(run_test_module) is     *)
(*       under way, called by run_modules and by dbg_run)                  *)
(* life.cycles counts the ticks that went through run_modules or dbg_run;  *)
(* life.owed holds the sources edited and not yet reported by an Analysis, *)
(* with the number of cycles that have ended since; life.seen counts, for  *)
(* an edited source, the Analyses that reported it since its last edit;    *)
(* life.raced holds the sources edited between the capture and the diff;   *)
(* life.ran the edited sources a forced tick has run in the meantime and   *)
(* life.again those of them the Analysis of this cycle reports; life.gone  *)
(* the sources deleted while the running call of test_modules_to_run held  *)
(* them.                                                                   *)
(***************************************************************************)
\* the watched tree without its test modules
BareFs == [p \in DOMAIN WatcherFs \ test_modules(WatcherFs, P_w) |-> WatcherFs[p]]
CycleTrees == {WatcherFs, BareFs}
CycleKeys == {"r", "a"}
CycleOutcomes == {O_report, O_timeout}
\* the files the environment deletes while the driver runs
Deleted == {F_pm2, F_suffix_test}

Task(kind, tm, cycle) == [kind |-> kind, tm |-> tm, cycle |-> cycle]

\* pool.map(f, tt): every element becomes a task of the pool
map_tasks(kind, tt, cycle) == {Task(kind, tm, cycle) : tm \in tt}

\* variant: the map of the dependency generator returns at once
deps_returned_at_once(pl) == TRUE

\* pool.map blocks until every task has ended
deps_returned(pl) == pl.inflight = {}
tests_returned(pl) == pl.inflight = {}

\* the subprocesses pool.map starts for the paths of tt
launches(tt) == [p \in Range(tt) |-> Cardinality({i \in 1..Len(tt) : tt[i] = p})]

\* variant: a module whose timeout expired is started once more
task_ended_retrying(pl, t, o) ==
    IF o = O_timeout /\ pl.launched[t.tm] < 2
    THEN [pl EXCEPT !.launched[t.tm] = @ + 1]
    ELSE [pl EXCEPT !.inflight = @ \ {t}, !.done = (t.tm :> o) @@ @]

\* run_test_module returns its result, whatever the outcome of the subprocess
task_ended(pl, t, o) == [pl EXCEPT !.inflight = @ \ {t}, !.done = (t.tm :> o) @@ @]

\* variant: the tick forced by r swaps the previous snapshot as well
snapshot_after_forced_swapping(self, snap) == snap

\* the r branch of watcher calls run_modules with dir.test_modules() and
\* does not call test_modules_to_run: the previous snapshot stays
snapshot_after_forced(self, snap) == self

\* variant: every empty tick renders the baseline
renders_baseline_always(tt, fst) == tt = <<>>

\* run_modules: elif first
renders_baseline(tt, fst) == tt = <<>> /\ fst

\* the production modules whose modification makes updated() ask for the
\* dependencies
modified_pp(f, self, other) ==
    {p \in other.pp : ~stat_raises(f, self, p) /\ is_modified(f, self, p)}

\* the sources an Analysis reports as modified
Reported(a) == a.mod_tt \cup DOMAIN a.mod_pp

Owe(owed, p) == IF p \in DOMAIN owed THEN owed ELSE (p :> 0) @@ owed
Settle(owed, a) == [p \in DOMAIN owed \ Reported(a) |-> owed[p]]
Forget(q, p) == [x \in DOMAIN q \ {p} |-> q[x]]
Count(seen, a) ==
    [p \in DOMAIN seen |-> IF p \in Reported(a) /\ seen[p] < 2 THEN seen[p] + 1 ELSE seen[p]]
Age(owed) == [p \in DOMAIN owed |-> IF owed[p] < MaxCycles THEN owed[p] + 1 ELSE owed[p]]

InitCycle ==
    /\ \E f \in CycleTrees : InitDirOn(f)
    /\ DispatcherOff
    /\ pc = "top" /\ dbg \in BOOLEAN /\ first = TRUE
    /\ should_quite = 0
    /\ inp = <<>> /\ screen = <<>> /\ key = ""
    /\ RunnerOff
    /\ CycleOff
    /\ ExtractorOff
    /\ IndexOff

\* a file is written while the driver runs
EditInCycle(p) ==
    /\ running
    /\ utime(p)
    /\ life' = [life EXCEPT !.owed = Owe(@, p),
                            !.seen = (p :> 0) @@ @,
                            !.raced = IF pc \in {"diff", "deps"}
                                      THEN @ \cup {p} ELSE @ \ {p},
                            !.ran = @ \ {p}]
    /\ UNCHANGED hist
    /\ UNCHANGED <<now, pool>>
    /\ UNCHANGED <<dispatchVars, driverVars, runVars>>
    /\ UNCHANGED deps
    /\ UNCHANGED index

\* a file is deleted while the driver runs
DeleteInCycle(p) ==
    /\ running
    /\ clock < MaxClock
    /\ exists(fs, p)
    /\ clock' = clock + 1
    /\ fs' = [q \in DOMAIN fs \ {p} |-> fs[q]]
    /\ life' = [life EXCEPT !.owed = Forget(@, p), !.seen = Forget(@, p),
                            !.raced = @ \ {p}, !.ran = @ \ {p},
                            !.gone = IF pc \in {"diff", "deps"} /\ p \in now.tt \cup now.pp
                                     THEN @ \cup {p} ELSE @]
    /\ UNCHANGED <<dirFrame, hist>>
    /\ UNCHANGED <<now, pool>>
    /\ UNCHANGED <<dispatchVars, driverVars, runVars>>
    /\ UNCHANGED deps
    /\ UNCHANGED index

\* now = Snapshot(...) while a listed file is deleted before its mtime is
\* read: p.stat() raises out of Snapshot.__init__ and out of watcher
CaptureOfDeleted(p) ==
    /\ pc = "mode"
    /\ life.cycles < MaxCycles
    /\ clock < MaxClock
    /\ p \in test_modules(fs, dir) \cup production_modules(fs, dir, root_package)
    /\ clock' = clock + 1
    /\ fs' = [q \in DOMAIN fs \ {p} |-> fs[q]]
    /\ pc' = "crashed"
    /\ life' = [life EXCEPT !.owed = Forget(@, p), !.seen = Forget(@, p),
                            !.raced = @ \ {p}, !.ran = @ \ {p}, !.gone = @ \cup {p}]
    /\ UNCHANGED <<dirFrame, hist>>
    /\ UNCHANGED <<now, pool>>
    /\ UNCHANGED <<dbg, first, should_quite, inp, screen, key>>
    /\ UNCHANGED <<dispatchVars, runVars>>
    /\ UNCHANGED deps
    /\ UNCHANGED index

\* now = Snapshot(...): the sources are discovered and their mtimes are read
Capture ==
    /\ pc = "mode"
    /\ life.cycles < MaxCycles
    /\ now' = snapshot_now(fs, dir, root_package, static_maps)
    /\ pc' = "diff"
    /\ UNCHANGED <<pool, life>>
    /\ UNCHANGED <<dbg, first, should_quite, inp, screen, key>>
    /\ UNCHANGED <<dirVars, dispatchVars, runVars>>
    /\ UNCHANGED deps
    /\ UNCHANGED index

\* updated(now) up to production_to_test of the first modified production
\* module: self.dep_gen(self.tt) hands the test modules to the pool
StartDeps ==
    /\ pc = "diff"
    /\ modified_pp(fs, last_snapshot, now) # {}
    /\ pool' = [pool EXCEPT !.inflight = @ \cup map_tasks("dep", now.tt, life.cycles),
                            !.done = <<>>]
    /\ pc' = "deps"
    /\ UNCHANGED <<now, life>>
    /\ UNCHANGED <<dbg, first, should_quite, inp, screen, key>>
    /\ UNCHANGED <<dirVars, dispatchVars, runVars>>
    /\ UNCHANGED deps
    /\ UNCHANGED index

\* dep_gen(tm) has ended in its worker
DepDone(t) ==
    /\ t \in pool.inflight
    /\ t.kind = "dep"
    /\ pool' = [pool EXCEPT !.inflight = @ \ {t}]
    /\ UNCHANGED <<now, life>>
    /\ UNCHANGED <<dirVars, dispatchVars, driverVars, runVars>>
    /\ UNCHANGED deps
    /\ UNCHANGED index

\* the rest of updated(now), with the mtimes the files have by then, and
\* self._last_snapshot = now; return tt
Diff ==
    /\ \/ pc = "diff" /\ modified_pp(fs, last_snapshot, now) = {}
       \/ pc = "deps" /\ deps_returned(pool)
    /\ AnalysisOfTick(now, updated(fs, dir, root_package, last_snapshot, now))
    /\ now' = NoSnapshot
    /\ life' = IF pc' = "crashed" THEN life
               ELSE [life EXCEPT !.swaps = @ + 1,
                                 !.owed = Settle(@, analysis'),
                                 !.seen = Count(@, analysis'),
                                 !.again = life.ran \cap Reported(analysis'),
                                 !.ran = {}]
    /\ UNCHANGED pool
    /\ UNCHANGED <<fs, clock, dir, root_package, static_maps, ncalls, hist>>
    /\ UNCHANGED <<run, rr, out, dbg, first, should_quite, inp, screen, key>>
    /\ UNCHANGED runVars
    /\ UNCHANGED deps
    /\ UNCHANGED index

\* run_modules up to run_tests, or all of it when there is nothing to run
RunModulesOfCycle ==
    /\ pc = "run_modules"
    /\ life.cycles < MaxCycles
    /\ first' = FALSE
    /\ IF jobs # <<>>
       THEN pc' = "run_tests" /\ UNCHANGED screen
       ELSE /\ pc' = "sleep"
            /\ screen' = IF renders_baseline(jobs, first)
                         THEN <<print_summary(<<>>, FALSE), BUTTONS>> ELSE screen
    /\ life' = [life EXCEPT
                  !.forced = @ \/ key = "r",
                  !.baselines = IF renders_baseline(jobs, first) THEN @ + 1 ELSE @,
                  !.late = @ \/ (renders_baseline(jobs, first) /\ life.dispatched),
                  !.ran = IF key = "r" /\ jobs # <<>> THEN DOMAIN life.owed ELSE @]
    /\ last_snapshot' =
          IF key = "r"
          THEN snapshot_after_forced(last_snapshot,
                                     snapshot_now(fs, dir, root_package, static_maps))
          ELSE last_snapshot
    /\ UNCHANGED <<now, pool>>
    /\ UNCHANGED <<dbg, should_quite, inp, key>>
    /\ UNCHANGED <<fs, clock, dir, root_package, static_maps, analysis, ncalls, hist>>
    /\ UNCHANGED <<dispatchVars, runVars>>
    /\ UNCHANGED deps
    /\ UNCHANGED index

\* run_tests: pool.map(dir.run_test_module, tt) hands the modules to the pool
Launch ==
    /\ pc \in {"run_tests", "dbg_run_tests"}
    /\ pool' = [inflight |-> pool.inflight \cup map_tasks("test", Range(jobs), life.cycles),
                done |-> <<>>,
                launched |-> launches(jobs)]
    /\ pc' = IF pc = "run_tests" THEN "tests" ELSE "dbg_tests"
    /\ life' = [life EXCEPT !.dispatched = TRUE]
    /\ UNCHANGED now
    /\ UNCHANGED <<dbg, first, should_quite, inp, screen, key>>
    /\ UNCHANGED <<dirVars, dispatchVars, runVars>>
    /\ UNCHANGED deps
    /\ UNCHANGED index

\* the subprocess of a test module has ended, or its timeout has expired
TestDone(t, o) ==
    /\ t \in pool.inflight
    /\ t.kind = "test"
    /\ pool' = task_ended(pool, t, o)
    /\ UNCHANGED <<now, life>>
    /\ UNCHANGED <<dirVars, dispatchVars, driverVars, runVars>>
    /\ UNCHANGED deps
    /\ UNCHANGED index

\* pool.map has returned: the rest of run_tests and the rendering
CollectResults ==
    /\ pc \in {"tests", "dbg_tests"}
    /\ tests_returned(pool)
    /\ run' = [i \in 1..Len(jobs) |-> [tm |-> jobs[i], o |-> pool.done[jobs[i]]]]
    /\ rr' = map_run_test_module(root_package, jobs, [i \in 1..Len(jobs) |-> pool.done[jobs[i]]])
    /\ out' = Returned(run_tests(rr'))
    /\ IF print_summary_raises(out'.ss)
       THEN pc' = "crashed" /\ UNCHANGED screen
       ELSE IF pc = "tests"
       THEN pc' = "sleep" /\ screen' = render(out'.ss, out'.ee)
       ELSE pc' = "prompt" /\ screen' = dbg_render(out'.ss, out'.ee, analysis)
    /\ pool' = [pool EXCEPT !.done = <<>>]
    /\ UNCHANGED <<now, life>>
    /\ UNCHANGED jobs
    /\ UNCHANGED <<dbg, first, should_quite, inp, key>>
    /\ UNCHANGED <<dirVars, runVars>>
    /\ UNCHANGED deps
    /\ UNCHANGED index

\* the cycle is over
CycleEnds ==
    /\ TickEnds
    /\ life' = [life EXCEPT !.cycles = @ + 1, !.swaps = 0, !.owed = Age(@),
                            !.again = {}, !.gone = {}]
    /\ UNCHANGED <<now, pool>>
    /\ UNCHANGED <<dbg, first, should_quite, inp>>
    /\ UNCHANGED runVars
    /\ UNCHANGED deps
    /\ UNCHANGED index

\* time.sleep(frq) and the return to the head of the loop
SleepOfCycle == pc = "sleep" /\ pc' = "top" /\ CycleEnds

\* input() returns
PromptOfCycle == pc = "prompt" /\ pc' = "top" /\ CycleEnds

NextCycle ==
    \/ \E p \in Edited : EditInCycle(p)
    \/ \E p \in Deleted : DeleteInCycle(p)
    \/ \E p \in Deleted : CaptureOfDeleted(p)
    \/ \E ch \in CycleKeys : KeyPressed(ch)
    \/ PollQuit
    \/ PollInp
    \/ Capture
    \/ StartDeps
    \/ \E t \in pool.inflight : DepDone(t)
    \/ Diff
    \/ RunModulesOfCycle
    \/ DbgRun
    \/ Launch
    \/ \E t \in pool.inflight, o \in CycleOutcomes : TestDone(t, o)
    \/ CollectResults
    \/ SleepOfCycle
    \/ PromptOfCycle

SpecCycle == InitCycle /\ [][NextCycle]_vars

(***************************************************************************)
(* Properties of the cycle                                                 *)
(***************************************************************************)
Dispatching == pc \in {"run_tests", "dbg_run_tests", "tests", "dbg_tests"}
InFlight(kind) == {t \in pool.inflight : t.kind = kind}

\* C26: the previous snapshot is swapped exactly once per cycle and before
\* the dispatch; a tick forced by r is a cycle like any other: whenever the
\* driver dispatches, the swap of this cycle has happened, and no cycle
\* swaps twice.
C26_SwapOncePerCycle ==
    /\ life.swaps <= 1
    /\ Dispatching => life.swaps = 1

\* C27: no edit is lost: a source whose mtime became newer at any moment is
\* reported by the Analysis of the running or of the next cycle, so no edit
\* is still unreported when the cycle after the one it fell into has ended.
C27_NoEditLost == \A p \in DOMAIN life.owed : life.owed[p] < 2

\* the edits that stay unreported are those followed by a forced tick
UnreportedOnlyIfForced ==
    (\E p \in DOMAIN life.owed : life.owed[p] >= 2) => life.forced

\* C28: the phases of the pool never overlap: the tasks in flight are all
\* of one kind and of the running cycle, dependency tasks are in flight
\* only while the driver waits for them in the analysis, and test tasks
\* only while it waits for them in run_tests; so the results of the import
\* analysis are all back before the first test subprocess starts, and all
\* subprocesses of a cycle have ended before the next cycle begins.
C28_PhasesNeverOverlap ==
    /\ \A t \in pool.inflight : t.cycle = life.cycles
    /\ \A t, u \in pool.inflight : t.kind = u.kind
    /\ InFlight("dep") # {} => pc = "deps"
    /\ InFlight("test") # {} => pc \in {"tests", "dbg_tests"}

\* in a second cycle, after an analysis that asked the pool for the
\* dependencies, one test subprocess has ended and another still runs
C28_Witness ==
    /\ life.cycles = 1
    /\ pc = "tests"
    /\ DOMAIN analysis.mod_pp # {}
    /\ InFlight("test") # {}
    /\ DOMAIN pool.done # {}

\* C29: in normal mode a tick with an empty to-run set renders nothing,
\* except in the first cycle, where it renders the baseline; the baseline
\* is rendered at most once and never after a cycle that dispatched.
C29_BaselineOnlyFirst ==
    ~dbg =>
        /\ (pc = "sleep" /\ jobs = <<>>) =>
               screen = IF life.cycles = 0
                        THEN <<print_summary(<<>>, FALSE), BUTTONS>> ELSE <<>>
        /\ life.baselines <= 1
        /\ ~life.late

\* the second cycle over a tree without tests: the baseline was rendered
\* in the first cycle and this tick has rendered nothing
C29_Witness ==
    /\ ~dbg
    /\ pc = "sleep" /\ jobs = <<>>
    /\ life.cycles = 1
    /\ life.baselines = 1
    /\ screen = <<>>

\* the first cycle's baseline itself
BaselineRendered ==
    ~dbg /\ pc = "sleep" /\ life.cycles = 0 /\ life.baselines = 1
         /\ screen = <<print_summary(<<>>, FALSE), BUTTONS>>

\* C33: within one cycle each path of the to-run set is executed by exactly
\* one subprocess, a module that timed out or failed is not started again
\* in that cycle; what a cycle starts is what its Analysis selected, or all
\* test modules when the user pressed r.
C33_OneSubprocessPerPath ==
    /\ \A p \in DOMAIN pool.launched : pool.launched[p] = 1
    /\ pc \in {"tests", "dbg_tests"} =>
          /\ DOMAIN pool.launched = Range(jobs)
          /\ {t.tm : t \in pool.inflight} \cup DOMAIN pool.done = Range(jobs)
          /\ key = "r" \/ Range(jobs) = ToRun(analysis)

\* in the second cycle every subprocess has ended, one of them by its
\* timeout, and each was started once
C33_Witness ==
    /\ life.cycles = 1
    /\ pc = "tests"
    /\ pool.inflight = {}
    /\ \E p \in DOMAIN pool.done : pool.done[p] = O_timeout
    /\ DOMAIN pool.done = Range(jobs)

\* C35: a single modification of a source is reported as modified by
\* exactly one Analysis, also when the mtime changes after the new snapshot
\* recorded its mtimes and before the differ reads the mtime of the file:
\* no edit is reported by two Analyses.
C35_ReportedOnce == \A p \in DOMAIN life.seen : life.seen[p] <= 1

\* an edit reported twice fell between the capture and the diff
TwiceOnlyIfRaced ==
    \A p \in DOMAIN life.seen : life.seen[p] > 1 => p \in life.raced

\* C36: a file deleted concurrently with a cycle, between the listing and
\* the reading of its mtime or between the capture and the diff, never
\* terminates the driver: no driver that lost a file this way has ended
\* with an exception.
C36_DeletionNeverEndsDriver == life.gone # {} => pc # "crashed"

\* every exception out of the analysis comes with a file lost this way
AnalysisRaisesOnlyIfGone ==
    [][(pc \in {"mode", "diff", "deps"} /\ pc' = "crashed") => life'.gone # {}]_vars

\* a step of the driver in which test_modules_to_run returns
DiffReturns == pc \in {"diff", "deps"} /\ pc' \in {"run_modules", "dbg_run"}

\* C37: a tick that handles r or a leaves the previous snapshot unchanged:
\* only the return of test_modules_to_run changes it; hence a source
\* modified before a tick forced by r, which has run it, is reported as
\* modified and dispatched again by the next tick that analyses.
C37_OnlyTestModulesToRunSwaps ==
    [][/\ last_snapshot' # last_snapshot => DiffReturns
       /\ DiffReturns => /\ life.ran \subseteq Reported(analysis')
                         /\ life.ran \cap now.tt \subseteq Range(jobs')]_vars

\* the module edited before the forced tick, and run by it, runs again
C37_Witness ==
    /\ life.forced
    /\ pc = "tests"
    /\ key # "r"
    /\ life.again # {}
    /\ life.again \subseteq analysis.mod_tt
    /\ life.again \subseteq Range(jobs)

(***************************************************************************)
(* The import extractor over trees with chained aggregators: dep_gen is    *)
(* called for a test module of the watched package                         *)
(***************************************************************************)
ImportTrees ==
    {[p \in DOMAIN InitFs \cup more |-> [kind |-> KindOf[p], mtime |-> 0]] :
       more \in SUBSET (Chained \cup Broken)}

InitImports ==
    /\ \E f \in ImportTrees : InitDirOn(f)
    /\ DispatcherOff
    /\ DriverOff
    /\ RunnerOff
    /\ CycleOff
    /\ ExtractorOff
    /\ IndexOff

\* dep_gen(tm): return tm.path, [p for p in tm.production_dependencies()];
\* an exception out of the generator leaves no list behind
DepGen(tm) ==
    /\ LET r == production_dependencies(fs, sub_packages(fs, dir), root_package, tm)
       IN deps' = [called |-> TRUE, tm |-> tm, exc |-> r.exc,
                   deps |-> IF r.exc THEN {} ELSE r.deps]
    /\ UNCHANGED <<dirVars, dispatchVars, driverVars, runVars, cycleVars>>
    /\ UNCHANGED index

NextImports == \E tm \in test_modules(fs, dir) : DepGen(tm)

SpecImports == InitImports /\ [][NextImports]_vars

\* the modules a top-level statement of mod names: the module of a
\* from-import, or the modules of its names when it is a package
NamedBy(tm, mod, node) ==
    IF node.kind = "from"
    THEN {import_to_module(fs, root_package, node.module, tm)}
         \cup {import_to_module(fs, root_package, node.module \o n, tm) : n \in Names(node)}
    ELSE {import_to_module(fs, root_package, n, mod) : n \in Names(node)}

\* the modules the top-level statements of mod name
ImportedBy(tm, mod) ==
    IF ~SrcOf[mod].ok THEN {}
    ELSE {d.p : d \in {x \in UNION {NamedBy(tm, mod, SrcOf[mod].stmts[i]) :
                                      i \in 1..Len(SrcOf[mod].stmts)} : x.some}}

\* the modules within one level of re-export of the imports of tm
OneLevel(tm) == ImportedBy(tm, tm) \cup UNION {ImportedBy(tm, m) : m \in ImportedBy(tm, tm)}

\* C30: resolving a from-import follows at most one level of re-export, so
\* production_dependencies terminates for every import graph, aggregators
\* that re-export a name of one another in a cycle included: dep_gen raises
\* nothing, and what it yields is within one level of re-export of the
\* imports of the test module.
C30_OneLevelOfReExport ==
    deps.called => /\ ~deps.exc
                   /\ deps.deps \subseteq OneLevel(deps.tm)

\* the recursion through the aggregators ping and pong does not end
RecursionDoesNotEnd == deps.called /\ deps.tm = F_ping_test /\ deps.exc

\* two levels of re-export are followed: hop, nest, deep
TwoLevelsFollowed ==
    deps.called /\ deps.tm = F_hop_test /\ ~deps.exc /\ deps.deps = {F_deep}

(***************************************************************************)
(* Properties of the Analysis: vanished sources, the reverse index         *)
(***************************************************************************)
\* a call of test_modules_to_run has returned in this step
CallReturns == ncalls' = ncalls + 1

\* the sources of the previous snapshot that the new snapshot does not hold
Vanished == (last_snapshot.tt \cup last_snapshot.pp) \ (last_snapshot'.tt \cup last_snapshot'.pp)

\* C31: a source of the previous snapshot that is no longer discovered
\* contributes nothing to the Analysis: it is not in mod_tt, it is no key of
\* mod_pp, and it is not in the to-run set, also when a static mapping
\* names it.
C31_VanishedContributeNothing ==
    [][CallReturns =>
         \A p \in Vanished : /\ p \notin analysis'.mod_tt
                             /\ p \notin DOMAIN analysis'.mod_pp
                             /\ p \notin ToRun(analysis')]_vars

\* a vanished source is neither reported as modified nor a key of mod_pp
VanishedNotReported ==
    [][CallReturns =>
         \A p \in Vanished : /\ p \notin analysis'.mod_tt
                             /\ p \notin DOMAIN analysis'.mod_pp]_vars

\* C34: every path in the to-run set of an Analysis, and every member of a
\* value of mod_pp, is a test source of the snapshot captured by the call
\* that returned the Analysis, whatever static mappings are registered.
C34_ToRunAreTestSources ==
    ncalls >= 1 =>
        /\ ToRun(analysis) \subseteq last_snapshot.tt
        /\ \A p \in DOMAIN analysis.mod_pp : analysis.mod_pp[p] \subseteq last_snapshot.tt

\* what the imports alone contribute are test sources of the snapshot
ImportedAreTestSources ==
    ncalls >= 1 =>
        \A p \in DOMAIN analysis.mod_pp :
            analysis.mod_pp[p] \ MappedTo(p) \subseteq last_snapshot.tt

(***************************************************************************)
(* Snapshot.production_to_test, call by call: the attribute _pp_to_tt of   *)
(* the snapshot now, built by the first call; between the calls files are  *)
(* deleted and mappings are registered.                                    *)
(*   index.attr    the attribute _pp_to_tt exists                          *)
(*   index.shared  now.static_mappings is the dict Dir.static_maps itself, *)
(*                 not the empty dict Dir.mappings() made for the caller   *)
(*   index.gens    invocations of the dependency generator                 *)
(*   index.ret     per production path, the values the calls returned      *)
(***************************************************************************)
IndexTrees == {InitFs, WatcherFs}
IndexProbes == {F_pm1, F_pm2, F_deep, F_nest}

\* the static mappings the snapshot reads when it builds the index
static_mappings(snap, ix, sm) == IF ix.shared THEN mappings(sm) ELSE snap.sm

\* the except AttributeError branch: self._pp_to_tt = dict(), then the loops
\* over self.dep_gen(self.tt) and over the static mappings; an exception of
\* the generator leaves the empty dict behind
build(snap, ix, sm, gen) ==
    [ix EXCEPT !.attr = TRUE,
               !.gens = @ + 1,
               !.m = IF gen.exc THEN <<>>
                     ELSE pp_to_tt([snap EXCEPT !.sm = static_mappings(snap, ix, sm)], gen.deps)]

\* variant: the index is built by every call
index_of_call_rebuilding(snap, ix, sm, gen) == build(snap, ix, sm, gen)

\* the index a call of production_to_test reads: the attribute, or the
\* index it builds when the attribute is missing
index_of_call(snap, ix, sm, gen) == IF ix.attr THEN ix ELSE build(snap, ix, sm, gen)

Returns(ret, prd, v) ==
    IF prd \in DOMAIN ret THEN [ret EXCEPT ![prd] = @ \cup {v}] ELSE (prd :> {v}) @@ ret

InitIndex ==
    /\ \E f \in IndexTrees : InitDirOn(f)
    /\ DispatcherOff
    /\ DriverOff
    /\ RunnerOff
    /\ CycleOff
    /\ ExtractorOff
    /\ IndexOff

\* now = Snapshot(..., self._dep_gen, self.mappings())
NewSnapshot ==
    /\ now = NoSnapshot
    /\ now' = snapshot_now(fs, dir, root_package, static_maps)
    /\ index' = [NoIndex EXCEPT !.shared = static_maps.set]
    /\ UNCHANGED <<pool, life>>
    /\ UNCHANGED <<dirVars, dispatchVars, driverVars, runVars, deps>>

\* now.production_to_test(prd)
ProductionToTest(prd) ==
    /\ now # NoSnapshot
    /\ LET gen == dep_gen(fs, dir, root_package, now.tt)
           ix == index_of_call(now, index, static_maps, gen)
       IN index' = IF ~index.attr /\ gen.exc THEN ix
                   ELSE [ix EXCEPT !.ret = Returns(@, prd, production_to_test(ix.m, prd))]
    /\ UNCHANGED cycleVars
    /\ UNCHANGED <<dirVars, dispatchVars, driverVars, runVars, deps>>

NextIndex ==
    \/ NewSnapshot
    \/ \E prd \in IndexProbes : ProductionToTest(prd)
    \/ \E p \in Volatile : Delete(p)
    \/ \E ps \in MapProds, ts \in MapTests : Map(ps, ts)

SpecIndex == InitIndex /\ [][NextIndex]_vars

\* C32: the reverse index of a Snapshot is built at most once: the
\* dependency generator is invoked at most once per snapshot, by the first
\* call of production_to_test, and the later calls return the same set for
\* the same production path, also for a path that is not in the index.
C32_IndexBuiltOnce ==
    /\ index.gens <= 1
    /\ index.attr <=> (index.gens = 1)
    /\ (index.ret # <<>>) => index.attr
    /\ \A prd \in DOMAIN index.ret : Cardinality(index.ret[prd]) = 1

\* every probed production path has been asked for, one without an entry
\* included; a module the index names is deleted and a mapping is registered
C32_Witness ==
    /\ index.attr
    /\ DOMAIN index.ret = IndexProbes
    /\ index.ret[F_nest] = {{}}
    /\ index.ret[F_pm2] # {{}}
    /\ ~exists(fs, F_pm2)
    /\ static_maps.set

\* C38: a production module that cannot be parsed does not abort the
\* dependency analysis: for a test source that from-imports a name from it,
\* production_dependencies returns, and the module itself is the dependency.
C38_UnparsedAggregatorIsDependency ==
    (deps.called /\ deps.tm = F_broken_test /\ exists(fs, F_broken)) =>
        /\ ~deps.exc
        /\ F_broken \in deps.deps

\* a test module that cannot be parsed yields nothing and raises nothing
UnparsedTestYieldsNothing ==
    (deps.called /\ ~SrcOf[deps.tm].ok) => (~deps.exc /\ deps.deps = {})

====
